---- MODULE Spec2Model ----
(***************************************************************************)
(* Verification model of the email validation core of EmailValidator28.    *)
(*                                                                         *)
(* The module holds one state machine per component, each with its own     *)
(* specification:                                                          *)
(*   SpecSmtp   app/utils/smtp_verifier.py          verify_smtp            *)
(*   SpecEmail  app/utils/validation_orchestrator.py validate_email        *)
(*   SpecBatch  validate_emails_batch / process_email_batch                *)
(*   SpecDisposable  app/utils/disposable_email_detector.py                *)
(*   SpecReputation  app/utils/domain_reputation_checker.py                *)
(*   SpecRiskScore   app/utils/risk_score.py                               *)
(*   SpecTwice       validate_email called twice, cache and network use    *)
(*   SpecResolver    app/utils/dns_resolver.py over sqlite_cache.py        *)
(*   SpecRequest     app/middleware/request_validator.py, api/routes.py    *)
(*   SpecGate        validate_single_email over the DNS rate limit         *)
(*   SpecRateLimit   app/middleware/rate_limiter.py dispatch               *)
(*   SpecWindow      app/middleware/sqlite_rate_limiter.py                 *)
(*   SpecSummary     batch_processing.py generate_batch_summary            *)
(*   SpecConfidence  catch-all confidence (from the specification)         *)
(*   SpecLimiter     app/utils/rate_limiter.py RateLimiter.is_allowed      *)
(*   SpecCache       app/utils/sqlite_cache.py set, get, delete            *)
(*   SpecSession     app/utils/smtp_verifier.py _check_smtp_server         *)
(*   SpecStore       app/middleware/session.py SessionStore                *)
(*   SpecDnsValidator  app/validation/dns_validator.py, email_validator.py *)
(*   SpecTrap        app/utils/spam_trap_detector.py add, remove, load     *)
(*   SpecTable       sqlite_rate_limiter.py on the whole table             *)
(*   SpecFactors     check_reputation on the shared checker, interleaved   *)
(*   SpecValidator   app/utils/email_validator.py over check_reputation    *)
(*                                                                         *)
(* Modelling conventions.                                                  *)
(*  - Strings that the code takes apart (email addresses) are sequences of *)
(*    one-character strings; messages the code only builds are strings.    *)
(*  - A collaborator reached through an import (DNS validator, SMTP        *)
(*    verifier, detectors) is modelled at the interface its call site      *)
(*    uses: it returns a value of its documented range or raises.          *)
(*  - Names a module uses without binding them (logger, RateLimitExceeded  *)
(*    in validation_orchestrator.py) are taken to resolve to the objects   *)
(*    of the same name the sibling modules bind.                           *)
(***************************************************************************)
EXTENDS Integers, Sequences, FiniteSets, TLC

VARIABLES
    \* ---- verify_smtp (smtp_verifier.py) ----
    smtp_pc,        \* position inside verify_smtp
    smtp_email,     \* the argument
    dns_result,     \* what validate_dns(email) returned
    smtp_queue,     \* the part of sorted(mx_records) the for loop has yet to visit
    smtp_tried,     \* history: every _check_smtp_server call, in order, with its outcome
    smtp_result,    \* the dict verify_smtp returns
    \* ---- validate_email (validation_orchestrator.py) ----
    ve_pc,          \* position inside validate_email
    ve_email,       \* the argument
    ve_domain,      \* the local variable domain
    ve_dns_env,     \* the DNS records the domain has (what the resolver sees)
    ve_results,     \* the local variable results
    ve_status,      \* "running", "returned" (results handed back) or "raised"
    ve_raised,      \* the exception that left validate_email
    ve_calls,       \* history: the checks validate_email has called, in order
    \* ---- validate_emails_batch / process_email_batch ----
    b_pc,           \* position inside the batch function
    b_impl,         \* the module whose batch function is running
    b_emails,       \* the argument emails
    b_size,         \* the argument batch_size
    b_env,          \* what validate_email does for each address when run alone
    b_i,            \* the loop variable i: offset of the current chunk
    b_tasks,        \* the validate_email coroutines of the current chunk
    b_completed,    \* history: input positions in the order their validations ended
    b_results,      \* the local list results
    b_return,       \* what the batch function handed back
    \* ---- is_disposable_email (disposable_email_detector.py) ----
    de_pc,          \* position inside is_disposable_email
    de_email,       \* the argument
    de_domain,      \* the local variable domain
    de_response,    \* the local variable response
    de_failure,     \* history: how the remote lookup failed, "" while it has not
    de_outcome,     \* what is_disposable_email did: a value handed back, or an exception
    \* ---- DomainReputationChecker.check_reputation ----
    rp_pc,          \* position inside check_reputation
    rp_scores,      \* what the sub-checks called so far handed back, in call order
    rp_raised,      \* the exception the except clause of line 125 caught, "" if none
    rp_result,      \* the dict check_reputation returns
    \* ---- risk_score.calculate_risk_score ----
    rk_pc,          \* "call": the function is about to run on rk_input; "scored": it has
    rk_input,       \* the argument validation_result
    rk_scores,      \* history: the values of the successive calls
    \* ---- validate_email called twice for one address, cache enabled ----
    tc_call,        \* which of the two calls is running: 1 or 2
    tc_stage,       \* how many checks the running call has been through
    tc_local,       \* what the checks that only look at the address say about it
    tc_cache,       \* the cache: cache key -> stored value
    tc_network,     \* history: the network calls issued, with the call that issued them
    tc_checks,      \* the checks dict of each call
    \* ---- DNSResolver (dns_resolver.py) over the SQLite cache ----
    dr_now,         \* int(time.time()), counted from the first lookup
    dr_env,         \* the records the domain has
    dr_cache,       \* the cache table: key -> (value, expiry)
    dr_log,         \* history: the lookups made, with what each did
    \* ---- POST /validate/batch (request_validator.py, routes.py) ----
    rq_pc,          \* "dispatch": in the middleware; "route": handed on; "done": answered
    rq_body,        \* the body of the request
    rq_content_type,\* the Content-Type header of the request
    rq_calls,       \* history: the validators and collaborators called for the request
    rq_response,    \* the response: status code and content
    \* ---- POST /validate/email (routes.py) and the per-domain limiter ----
    g_n,            \* how many requests the route has handled
    g_now,          \* datetime.utcnow() at the latest request, in seconds
    g_last_check,   \* EmailDNSValidator.last_check: domain -> times of its checks
    g_calls,        \* history: what the latest request called, in order
    g_outcome,      \* how the latest request ended
    \* ---- RateLimitMiddleware.dispatch (middleware/rate_limiter.py) ----
    rl_tier,        \* the tier dispatch picked for the key
    rl_pc,          \* request -> "new", "call_next" (handed on, not yet counted) or "done"
    rl_counts,      \* the counters of the key: window -> count
    rl_outcome,     \* request -> how it ended
    \* ---- SQLiteRateLimiter (middleware/sqlite_rate_limiter.py) ----
    sw_pc,          \* "check": the next request is checked; "increment": it was allowed
    sw_window,      \* the argument window, in seconds
    sw_max_requests,\* the argument max_requests
    sw_now,         \* int(time.time()) at the latest request
    sw_row,         \* the row of the key in rate_limits
    sw_log,         \* history: the requests, with the count read and the answer
    \* ---- generate_batch_summary (batch_processing.py) ----
    sm_results,     \* the argument results
    sm_summary,     \* the dict generate_batch_summary returned
    \* ---- _calculate_confidence (catch-all detector) ----
    cf_responses,   \* the argument responses
    cf_confidence,  \* the confidence returned, as a fraction
    \* ---- RateLimiter.is_allowed (utils/rate_limiter.py) ----
    ra_window,      \* self.window
    ra_max_requests,\* self.max_requests
    ra_now,         \* what time.time() returns now
    ra_current_time,\* thread -> its local current_time, -1 outside is_allowed
    ra_requests,    \* self.requests[user_id]
    ra_allowed,     \* history: the times of the requests that were allowed
    ra_calls,       \* how many calls of is_allowed were made
    \* ---- SQLiteCacheManager (sqlite_cache.py) ----
    ch_n,           \* how many cache operations were made
    ch_now,         \* int(time.time()) at the latest operation
    ch_table,       \* the table cache: key -> (value as JSON text, expiry)
    ch_last,        \* history: key -> its latest set_cache that stored, forgotten at delete_cache
    ch_got,         \* the latest operation if it was a get_cache: its key and what it returned
    \* ---- _check_smtp_server (smtp_verifier.py) ----
    ss_pc,          \* position inside _check_smtp_server
    ss_mx_host,     \* the argument mx_host
    ss_log,         \* history: the commands sent to the host, each with whether the reply accepted it
    ss_supports_tls,\* the local variable supports_tls, unset before line 112
    ss_outcome,     \* what the call returned or raised
    \* ---- SessionStore (middleware/session.py) ----
    st_n,           \* how many calls were made on the store
    st_now,         \* datetime.utcnow() at the latest call, in days
    st_store,       \* the table _store: session id -> session
    st_expiry,      \* the table _expiry: session id -> expiry time
    st_made,        \* history: session id -> the session as created and updated, and whether delete_session was called on it
    st_got,         \* the latest call if it was a get_session: its argument and what it returned
    \* ---- DNSValidator (validation/dns_validator.py) ----
    dv_n,           \* how many calls were made on the validator
    dv_now,         \* datetime.now() at the latest call, in seconds
    dv_zone,        \* the DNS: domain -> record type -> whether the domain has such records
    dv_cache,       \* DNSCache._cache: domain -> (timestamp, records)
    dv_mx,          \* the latest call if it reached get_mx_records: the domain and what came back
    \* ---- SpamTrapDetector (spam_trap_detector.py) ----
    sp_n,           \* how many add_pattern and remove_pattern calls were made
    sp_patterns,    \* self.patterns: category -> set of patterns
    sp_file,        \* the config file: whether it exists and the JSON in it, category -> list of patterns
    sp_last,        \* the latest call: which, what it returned and self.patterns before it
    \* ---- SQLiteRateLimiter on the table rate_limits (sqlite_rate_limiter.py) ----
    tb_n,           \* how many calls were made on the limiter
    tb_now,         \* int(time.time()) at the latest call
    tb_rows,        \* the table rate_limits: (key, window) -> row
    tb_last,        \* the latest call if it was a check_rate_limit: its (key, window) and the table before it
    \* ---- check_reputation on the shared checker (domain_reputation_checker.py) ----
    fa_pc,          \* call -> 0 before it starts, then the sub-check it is to run next, then past the return
    fa_domain,      \* call -> its argument domain
    fa_age_score,   \* call -> whether _check_domain_age returned a number or None
    fa_details,     \* the details attributes of the shared instance, in the order of SubChecks: for which domain and by which call each was assigned
    fa_result,      \* call -> the dict it returned
    \* ---- EmailValidator.validate_email (utils/email_validator.py) ----
    ev_pc,          \* position inside validate_email
    ev_is_disposable,\* the local variable is_disposable
    ev_reputation,  \* the dict the reputation check returned
    ev_reasons,     \* result['reasons']
    ev_outcome      \* what validate_email returned (its is_valid) or raised

smtp_vars == <<smtp_pc, smtp_email, dns_result, smtp_queue, smtp_tried, smtp_result>>

ve_vars == <<ve_pc, ve_email, ve_domain, ve_dns_env, ve_results, ve_status, ve_raised, ve_calls>>

b_vars == <<b_pc, b_impl, b_emails, b_size, b_env, b_i, b_tasks, b_completed, b_results,
            b_return>>

de_vars == <<de_pc, de_email, de_domain, de_response, de_failure, de_outcome>>

rp_vars == <<rp_pc, rp_scores, rp_raised, rp_result>>

rk_vars == <<rk_pc, rk_input, rk_scores>>

tc_vars == <<tc_call, tc_stage, tc_local, tc_cache, tc_network, tc_checks>>

dr_vars == <<dr_now, dr_env, dr_cache, dr_log>>

rq_vars == <<rq_pc, rq_body, rq_content_type, rq_calls, rq_response>>

g_vars == <<g_n, g_now, g_last_check, g_calls, g_outcome>>

rl_vars == <<rl_tier, rl_pc, rl_counts, rl_outcome>>

sw_vars == <<sw_pc, sw_window, sw_max_requests, sw_now, sw_row, sw_log>>

sm_vars == <<sm_results, sm_summary>>

cf_vars == <<cf_responses, cf_confidence>>

ra_vars == <<ra_window, ra_max_requests, ra_now, ra_current_time, ra_requests, ra_allowed, ra_calls>>

ch_vars == <<ch_n, ch_now, ch_table, ch_last, ch_got>>

ss_vars == <<ss_pc, ss_mx_host, ss_log, ss_supports_tls, ss_outcome>>

st_vars == <<st_n, st_now, st_store, st_expiry, st_made, st_got>>

dv_vars == <<dv_n, dv_now, dv_zone, dv_cache, dv_mx>>

sp_vars == <<sp_n, sp_patterns, sp_file, sp_last>>

tb_vars == <<tb_n, tb_now, tb_rows, tb_last>>

fa_vars == <<fa_pc, fa_domain, fa_age_score, fa_details, fa_result>>

ev_vars == <<ev_pc, ev_is_disposable, ev_reputation, ev_reasons, ev_outcome>>

vars == <<smtp_vars, ve_vars, b_vars, de_vars, rp_vars, rk_vars, tc_vars, dr_vars,
          rq_vars,
          g_vars,
          rl_vars,
          sw_vars,
          sm_vars,
          cf_vars,
          ra_vars,
          ch_vars,
          ss_vars,
          st_vars,
          dv_vars,
          sp_vars,
          tb_vars,
          fa_vars,
          ev_vars>>

(***************************************************************************)
(* Bounds                                                                  *)
(***************************************************************************)
MaxMx == 3          \* longest MX list validate_dns returns
MaxLen == 3         \* longest email address handed to validate_email
MaxEmails == 3      \* longest list handed to a batch function
MaxBatchSize == 2   \* largest batch_size handed to a batch function
MaxChanges == 2     \* most checks changed from failing to passing between risk score calls
MaxLookups == 3     \* most lookups made through one DNSResolver

(***************************************************************************)
(* Python helpers                                                          *)
(***************************************************************************)
NoValue == [none |-> TRUE]

\* str.split(sep): the list of the pieces of s between occurrences of sep
RECURSIVE split(_, _)
split(s, sep) ==
    IF \A i \in 1..Len(s) : s[i] # sep
    THEN <<s>>
    ELSE LET k == CHOOSE i \in 1..Len(s) :
                      s[i] = sep /\ \A j \in 1..(i - 1) : s[j] # sep
         IN <<SubSeq(s, 1, k - 1)>> \o split(SubSeq(s, k + 1, Len(s)), sep)

\* Python's order on (priority, host) tuples
TupleLess(x, y) == x[1] < y[1] \/ (x[1] = y[1] /\ x[2] < y[2])

RECURSIVE InsertSorted(_, _)
InsertSorted(x, s) ==
    IF s = <<>> THEN <<x>>
    ELSE IF TupleLess(x, Head(s)) THEN <<x>> \o s
    ELSE <<Head(s)>> \o InsertSorted(x, Tail(s))

RECURSIVE sortedAscending(_)
sortedAscending(s) ==
    IF s = <<>> THEN <<>> ELSE InsertSorted(Head(s), sortedAscending(Tail(s)))

\* a plausible slip: the MX list used in the order DNS returned it
sortedOmitted(s) == s

\* sorted(mx_records) at smtp_verifier.py:65
sorted(s) == sortedAscending(s)

Range(s) == {s[i] : i \in 1..Len(s)}

(***************************************************************************)
(* Components at rest: a specification runs one component and leaves the   *)
(* others in these states.                                                 *)
(***************************************************************************)
SmtpIdle ==
    /\ smtp_pc = "idle"
    /\ smtp_email = <<>>
    /\ dns_result = NoValue
    /\ smtp_queue = <<>>
    /\ smtp_tried = <<>>
    /\ smtp_result = NoValue

VeIdle ==
    /\ ve_pc = "idle"
    /\ ve_email = <<>>
    /\ ve_domain = <<>>
    /\ ve_dns_env = NoValue
    /\ ve_results = NoValue
    /\ ve_status = "idle"
    /\ ve_raised = ""
    /\ ve_calls = <<>>

BatchIdle ==
    /\ b_pc = "idle"
    /\ b_impl = ""
    /\ b_emails = <<>>
    /\ b_size = 0
    /\ b_env = NoValue
    /\ b_i = 0
    /\ b_tasks = <<>>
    /\ b_completed = <<>>
    /\ b_results = <<>>
    /\ b_return = NoValue

DisposableIdle ==
    /\ de_pc = "idle"
    /\ de_email = <<>>
    /\ de_domain = <<>>
    /\ de_response = NoValue
    /\ de_failure = ""
    /\ de_outcome = NoValue

ReputationIdle ==
    /\ rp_pc = "idle"
    /\ rp_scores = <<>>
    /\ rp_raised = ""
    /\ rp_result = NoValue

RiskScoreIdle ==
    /\ rk_pc = "idle"
    /\ rk_input = NoValue
    /\ rk_scores = <<>>

TwiceIdle ==
    /\ tc_call = 0
    /\ tc_stage = 0
    /\ tc_local = NoValue
    /\ tc_cache = <<>>
    /\ tc_network = <<>>
    /\ tc_checks = <<>>

ResolverIdle ==
    /\ dr_now = 0
    /\ dr_env = NoValue
    /\ dr_cache = <<>>
    /\ dr_log = <<>>

RequestIdle ==
    /\ rq_pc = "idle"
    /\ rq_body = NoValue
    /\ rq_content_type = ""
    /\ rq_calls = <<>>
    /\ rq_response = NoValue

GateIdle ==
    /\ g_n = 0
    /\ g_now = 0
    /\ g_last_check = <<>>
    /\ g_calls = <<>>
    /\ g_outcome = "none"

RateLimitIdle ==
    /\ rl_tier = ""
    /\ rl_pc = <<>>
    /\ rl_counts = <<>>
    /\ rl_outcome = <<>>

WindowIdle ==
    /\ sw_pc = "idle"
    /\ sw_window = 0
    /\ sw_max_requests = 0
    /\ sw_now = 0
    /\ sw_row = NoValue
    /\ sw_log = <<>>

SummaryIdle ==
    /\ sm_results = <<>>
    /\ sm_summary = NoValue

ConfidenceIdle ==
    /\ cf_responses = <<>>
    /\ cf_confidence = NoValue

LimiterIdle ==
    /\ ra_window = 0
    /\ ra_max_requests = 0
    /\ ra_now = 0
    /\ ra_current_time = <<>>
    /\ ra_requests = <<>>
    /\ ra_allowed = <<>>
    /\ ra_calls = 0

CacheIdle ==
    /\ ch_n = 0
    /\ ch_now = 0
    /\ ch_table = <<>>
    /\ ch_last = <<>>
    /\ ch_got = NoValue

SessionIdle ==
    /\ ss_pc = "idle"
    /\ ss_mx_host = 0
    /\ ss_log = <<>>
    /\ ss_supports_tls = "unset"
    /\ ss_outcome = NoValue

StoreIdle ==
    /\ st_n = 0
    /\ st_now = 0
    /\ st_store = <<>>
    /\ st_expiry = <<>>
    /\ st_made = <<>>
    /\ st_got = NoValue

DnsValidatorIdle ==
    /\ dv_n = 0
    /\ dv_now = 0
    /\ dv_zone = <<>>
    /\ dv_cache = <<>>
    /\ dv_mx = NoValue

TrapIdle ==
    /\ sp_n = 0
    /\ sp_patterns = <<>>
    /\ sp_file = NoValue
    /\ sp_last = NoValue

TableIdle ==
    /\ tb_n = 0
    /\ tb_now = 0
    /\ tb_rows = <<>>
    /\ tb_last = NoValue

FactorsIdle ==
    /\ fa_pc = <<>>
    /\ fa_domain = <<>>
    /\ fa_age_score = <<>>
    /\ fa_details = <<>>
    /\ fa_result = <<>>

ValidatorIdle ==
    /\ ev_pc = "idle"
    /\ ev_is_disposable = FALSE
    /\ ev_reputation = NoValue
    /\ ev_reasons = {}
    /\ ev_outcome = NoValue

\* the components other than c are at rest
OthersIdle(c) ==
    /\ c # "smtp" => SmtpIdle
    /\ c # "email" => VeIdle
    /\ c # "batch" => BatchIdle
    /\ c # "disposable" => DisposableIdle
    /\ c # "reputation" => ReputationIdle
    /\ c # "risk_score" => RiskScoreIdle
    /\ c # "twice" => TwiceIdle
    /\ c # "resolver" => ResolverIdle
    /\ c # "request" => RequestIdle
    /\ c # "gate" => GateIdle
    /\ c # "rate_limit" => RateLimitIdle
    /\ c # "window" => WindowIdle
    /\ c # "summary" => SummaryIdle
    /\ c # "confidence" => ConfidenceIdle
    /\ c # "limiter" => LimiterIdle
    /\ c # "cache" => CacheIdle
    /\ c # "session" => SessionIdle
    /\ c # "store" => StoreIdle
    /\ c # "dns_validator" => DnsValidatorIdle
    /\ c # "trap" => TrapIdle
    /\ c # "table" => TableIdle
    /\ c # "factors" => FactorsIdle
    /\ c # "validator" => ValidatorIdle

\* a step of component c leaves the other components alone
OthersUnchanged(c) ==
    /\ c # "smtp" => UNCHANGED smtp_vars
    /\ c # "email" => UNCHANGED ve_vars
    /\ c # "batch" => UNCHANGED b_vars
    /\ c # "disposable" => UNCHANGED de_vars
    /\ c # "reputation" => UNCHANGED rp_vars
    /\ c # "risk_score" => UNCHANGED rk_vars
    /\ c # "twice" => UNCHANGED tc_vars
    /\ c # "resolver" => UNCHANGED dr_vars
    /\ c # "request" => UNCHANGED rq_vars
    /\ c # "gate" => UNCHANGED g_vars
    /\ c # "rate_limit" => UNCHANGED rl_vars
    /\ c # "window" => UNCHANGED sw_vars
    /\ c # "summary" => UNCHANGED sm_vars
    /\ c # "confidence" => UNCHANGED cf_vars
    /\ c # "limiter" => UNCHANGED ra_vars
    /\ c # "cache" => UNCHANGED ch_vars
    /\ c # "session" => UNCHANGED ss_vars
    /\ c # "store" => UNCHANGED st_vars
    /\ c # "dns_validator" => UNCHANGED dv_vars
    /\ c # "trap" => UNCHANGED sp_vars
    /\ c # "table" => UNCHANGED tb_vars
    /\ c # "factors" => UNCHANGED fa_vars
    /\ c # "validator" => UNCHANGED ev_vars

SmtpFrame == OthersUnchanged("smtp")

VeFrame == OthersUnchanged("email")

BatchFrame == OthersUnchanged("batch")

(***************************************************************************)
(* verify_smtp                                                             *)
(***************************************************************************)
Hosts == {1, 2, 3}             \* MX host names, in alphabetical order
Priorities == {10, 20}         \* MX preferences
MxRecord == Priorities \X Hosts

\* MX lists: sequences of distinct (priority, host) records, in any order
MxLists ==
    UNION {{s \in [1..n -> MxRecord] : \A i, j \in 1..n : i # j => s[i] # s[j]}
           : n \in 0..MaxMx}

SmtpEmails == {<<"u", "@", "d">>, <<"u", "d">>}

\* What one _check_smtp_server call can do: return an SMTPResult carrying the
\* RCPT TO code, raise SMTPVerificationError (socket.timeout or SMTPException
\* inside the session), or let another exception through (OSError on connect).
RcptCodes == {250, 550, 450}
HostOutcomes ==
    [kind : {"code"}, code : RcptCodes]
    \cup {[kind |-> "SMTPVerificationError", code |-> 0],
          [kind |-> "OSError", code |-> 0]}

SMTPResult(valid, error, code) == [valid |-> valid, error |-> error, code |-> code]

InitSmtp ==
    /\ smtp_pc = "start"
    /\ smtp_email \in SmtpEmails
    /\ dns_result = NoValue
    /\ smtp_queue = <<>>
    /\ smtp_tried = <<>>
    /\ smtp_result = NoValue
    /\ OthersIdle("smtp")

SmtpReturn(r) ==
    /\ smtp_result' = r
    /\ smtp_pc' = "done"

\* smtp_verifier.py:47-53: validate_dns and the DNS failure exit
verify_smtp_dns ==
    /\ smtp_pc = "start"
    /\ \E valid \in BOOLEAN, mx \in MxLists :
          /\ dns_result' = [valid |-> valid, mx_records |-> mx]
          /\ IF ~valid
             THEN /\ SmtpReturn(SMTPResult(FALSE, "DNS validation failed", 0))
                  /\ UNCHANGED smtp_queue
             ELSE /\ smtp_pc' = "mx"
                  /\ UNCHANGED <<smtp_queue, smtp_result>>
    /\ UNCHANGED <<smtp_email, smtp_tried>>
    /\ SmtpFrame

\* smtp_verifier.py:47, 84-89: validate_dns raises
verify_smtp_dns_raises ==
    /\ smtp_pc = "start"
    /\ SmtpReturn(SMTPResult(FALSE, "Verification failed: dns", 0))
    /\ UNCHANGED <<smtp_email, dns_result, smtp_queue, smtp_tried>>
    /\ SmtpFrame

\* a plausible slip: `if mx_records is None`, false of the empty list
mx_records_missing_is_none(mx_records) == FALSE

\* smtp_verifier.py:58: `if not mx_records`
mx_records_missing(mx_records) == mx_records = <<>>

\* smtp_verifier.py:55-65: the domain, the empty MX list exit, the sort
verify_smtp_mx ==
    /\ smtp_pc = "mx"
    /\ IF Len(split(smtp_email, "@")) < 2
       THEN \* email.split('@')[1] raises IndexError, caught at line 84
            /\ SmtpReturn(SMTPResult(FALSE, "Verification failed: list index out of range", 0))
            /\ UNCHANGED smtp_queue
       ELSE IF mx_records_missing(dns_result.mx_records)
       THEN /\ SmtpReturn(SMTPResult(FALSE, "No MX records found for domain", 0))
            /\ UNCHANGED smtp_queue
       ELSE /\ smtp_queue' = sorted(dns_result.mx_records)
            /\ smtp_pc' = "loop"
            /\ UNCHANGED smtp_result
    /\ UNCHANGED <<smtp_email, dns_result, smtp_tried>>
    /\ SmtpFrame

\* a plausible slip: a host that raises ends the probe
AfterHostExceptionAbort(q) == <<>>

\* smtp_verifier.py:74-76: except Exception: continue
AfterHostException(q) == Tail(q)

\* smtp_verifier.py:72-73 falling through to the next iteration
AfterHostNotValid(q) == Tail(q)

\* smtp_verifier.py:123-136: the SMTPResult _check_smtp_server builds from the
\* RCPT TO answer
check_smtp_server_result(code) == SMTPResult(code = 250, "", code)

\* smtp_verifier.py:65-76: one iteration of the for loop
verify_smtp_try_host ==
    /\ smtp_pc = "loop"
    /\ smtp_queue # <<>>
    /\ \E out \in HostOutcomes :
          /\ smtp_tried' = Append(smtp_tried, [mx |-> Head(smtp_queue), outcome |-> out])
          /\ IF out.kind = "code"
             THEN LET result == check_smtp_server_result(out.code) IN
                  IF result.valid
                  THEN /\ SmtpReturn(result)
                       /\ UNCHANGED smtp_queue
                  ELSE /\ smtp_queue' = AfterHostNotValid(smtp_queue)
                       /\ UNCHANGED <<smtp_pc, smtp_result>>
             ELSE /\ smtp_queue' = AfterHostException(smtp_queue)
                  /\ UNCHANGED <<smtp_pc, smtp_result>>
    /\ UNCHANGED <<smtp_email, dns_result>>
    /\ SmtpFrame

\* smtp_verifier.py:78-82: the loop ran out of hosts
verify_smtp_all_failed ==
    /\ smtp_pc = "loop"
    /\ smtp_queue = <<>>
    /\ SmtpReturn(SMTPResult(FALSE, "All MX servers failed verification", 0))
    /\ UNCHANGED <<smtp_email, dns_result, smtp_queue, smtp_tried>>
    /\ SmtpFrame

NextSmtp ==
    \/ verify_smtp_dns
    \/ verify_smtp_dns_raises
    \/ verify_smtp_mx
    \/ verify_smtp_try_host
    \/ verify_smtp_all_failed

SpecSmtp == InitSmtp /\ [][NextSmtp]_vars

(***************************************************************************)
(* Claims about verify_smtp                                                *)
(***************************************************************************)
TriedMx == {smtp_tried[i].mx : i \in 1..Len(smtp_tried)}

ConnectionFailed(out) == out.kind # "code"

Answered(out, code) == out.kind = "code" /\ out.code = code

AllMxFailedError == "All MX servers failed verification"

\* C8: verify_smtp contacts the MX hosts in ascending priority order; after a
\* host whose connection fails or times out it goes on to the next host; and
\* the first host that answers RCPT TO with 250 ends the probe with valid=true,
\* no host of lower priority being contacted.
C8_PriorityOrderFirst250Wins ==
    smtp_tried # <<>> =>
        /\ \A i, j \in 1..Len(smtp_tried) :
              i < j => smtp_tried[i].mx[1] <= smtp_tried[j].mx[1]
        /\ \A r \in Range(dns_result.mx_records) \ TriedMx :
              \A t \in TriedMx : t[1] <= r[1]
        /\ (smtp_pc = "done" /\ ConnectionFailed(smtp_tried[Len(smtp_tried)].outcome))
              => TriedMx = Range(dns_result.mx_records)
        /\ \A i \in 1..Len(smtp_tried) :
              Answered(smtp_tried[i].outcome, 250) =>
                  /\ i = Len(smtp_tried)
                  /\ smtp_pc = "done"
                  /\ smtp_result.valid = TRUE

\* C8 witness: the first host timed out, the second answered 250, and a host
\* of lower priority was left uncontacted.
C8_Witness ==
    /\ smtp_pc = "done"
    /\ Len(smtp_tried) = 2
    /\ smtp_tried[1].outcome.kind = "SMTPVerificationError"
    /\ Answered(smtp_tried[2].outcome, 250)
    /\ smtp_tried[1].mx[1] < smtp_tried[2].mx[1]
    /\ smtp_result.valid = TRUE
    /\ Range(dns_result.mx_records) \ TriedMx # {}

\* C9: when an MX host answers RCPT TO with 550, verify_smtp returns
\* valid=false with no error; the answer does not end in the "All MX servers
\* failed verification" error.
C9_Rcpt550IsNotAnError ==
    (smtp_pc = "done" /\ \E i \in 1..Len(smtp_tried) : Answered(smtp_tried[i].outcome, 550))
        => /\ smtp_result.valid = FALSE
           /\ smtp_result.error = ""

\* C10: when every MX host fails (none answers RCPT TO with 250), verify_smtp
\* returns valid=false with the error "All MX servers failed verification",
\* having attempted every MX record exactly once.
HostFailed(out) == ~Answered(out, 250)

HasDomainPart(email) == Len(split(email, "@")) >= 2

DnsReportedInvalid == dns_result # NoValue /\ ~dns_result.valid

MxListEmpty == dns_result # NoValue /\ dns_result.valid /\ dns_result.mx_records = <<>>

Alphabet == {"a", "A", "@", ".", " "}

None == <<"None">>              \* Python's None handed in as the email

Strings == UNION {[1..n -> Alphabet] : n \in 0..MaxLen}

EmailInputs == Strings \cup {None}

\* the outcome of a call: a value handed back, or an exception
Returns(v) == [kind |-> "returns", value |-> v, exc |-> ""]
Raises(e) == [kind |-> "raises", value |-> NoValue, exc |-> e]

\* str.lower()
lower(s) == [i \in 1..Len(s) |-> IF s[i] = "A" THEN "a" ELSE s[i]]

\* validation_orchestrator.py:218-231
extract_domain(email) ==
    IF email = None THEN Raises("AttributeError")
    ELSE IF Len(split(email, "@")) < 2 THEN Returns(<<>>)     \* IndexError caught
    ELSE Returns(lower(split(email, "@")[2]))

\* the characters of Alphabet in [a-zA-Z0-9.!#$%&'*+/=?^_`{|}~-] and in [a-zA-Z0-9-]
LocalChars == {"a", "A", "."}
LabelChars == {"a", "A"}

\* syntax_validator.py:23-24: re.match of
\*   ^[local chars]+@[label chars]+(?:\.[label chars]+)*$
regex_match(email) ==
    LET parts == split(email, "@") IN
    /\ Len(parts) = 2
    /\ parts[1] # <<>>
    /\ \A i \in 1..Len(parts[1]) : parts[1][i] \in LocalChars
    /\ LET labels == split(parts[2], ".") IN
       \A k \in 1..Len(labels) :
           /\ labels[k] # <<>>
           /\ \A i \in 1..Len(labels[k]) : labels[k][i] \in LabelChars

\* syntax_validator.py:9-29: True, or ValidationError; never False
validate_syntax(email) ==
    IF email = None THEN Raises("TypeError")
    ELSE IF regex_match(email) THEN Returns(TRUE)
    ELSE Raises("Invalid email syntax.")

\* a dict lookup with a default: d.get(k, default)
get(d, k, default) == IF k \in DOMAIN d THEN d[k] ELSE default

EmptyDict == [k \in {} |-> FALSE]

ErrorNone == <<>>              \* results["error"] = None

\* validation_orchestrator.py:55-71
initial_results(email) ==
    [email |-> email, is_valid |-> FALSE,
     checks |-> [syntax |-> FALSE, dns |-> EmptyDict, disposable |-> FALSE,
                 role_account |-> FALSE, spam_trap |-> FALSE, catch_all |-> FALSE,
                 typos |-> <<>>, reputation |-> 0, smtp |-> NoValue],
     score |-> 0, error |-> ErrorNone]

\* The records a domain has. A PTR lookup starts from the A record
\* (dns_resolver.py:134-136).
DnsEnvs ==
    {e \in [mx : BOOLEAN, a : BOOLEAN, aaaa : BOOLEAN, ns : BOOLEAN, ptr : BOOLEAN] :
        e.ptr => e.a}

\* a plausible slip: has_mx = mx_records is not None, true of the empty list
validate_domain_result_mx_not_none(e) ==
    [a_record |-> e.a, aaaa_record |-> e.aaaa, ns_record |-> e.ns,
     any_record |-> (e.a \/ e.aaaa \/ e.ns), has_mx |-> TRUE, has_ptr |-> e.ptr]

\* email_dns_validator.py:84-99 over dns_resolver.py:46-80: the dict
\* validate_domain hands back
validate_domain_result(e) ==
    [a_record |-> e.a, aaaa_record |-> e.aaaa, ns_record |-> e.ns,
     any_record |-> (e.a \/ e.aaaa \/ e.ns), has_mx |-> e.mx, has_ptr |-> e.ptr]

InitEmail ==
    /\ ve_pc = "extract_domain"
    /\ ve_email \in EmailInputs
    /\ ve_domain = <<>>
    /\ ve_dns_env = NoValue
    /\ ve_results = initial_results(ve_email)
    /\ ve_status = "running"
    /\ ve_raised = ""
    /\ ve_calls = <<>>
    /\ OthersIdle("email")

\* return results
VeReturn(results) ==
    /\ ve_results' = results
    /\ ve_status' = "returned"
    /\ ve_pc' = "done"
    /\ UNCHANGED ve_raised

\* an exception no handler of validate_email catches
VePropagate(exc) ==
    /\ ve_status' = "raised"
    /\ ve_raised' = exc
    /\ ve_pc' = "done"
    /\ UNCHANGED ve_results

\* validation_orchestrator.py:73-77
validate_email_extract_domain ==
    /\ ve_pc = "extract_domain"
    /\ ve_calls' = Append(ve_calls, "extract_domain")
    /\ LET r == extract_domain(ve_email) IN
       IF r.kind = "raises"
       THEN \* only ValidationError is caught, and extract_domain never raises it
            /\ VePropagate(r.exc)
            /\ UNCHANGED ve_domain
       ELSE /\ ve_domain' = r.value
            /\ ve_pc' = "validate_syntax"
            /\ UNCHANGED <<ve_results, ve_status, ve_raised>>
    /\ UNCHANGED <<ve_email, ve_dns_env>>
    /\ VeFrame

\* validation_orchestrator.py:79-88
validate_email_syntax ==
    /\ ve_pc = "validate_syntax"
    /\ ve_calls' = Append(ve_calls, "validate_syntax")
    /\ LET r == validate_syntax(ve_email) IN
       IF r.kind = "raises"
       THEN VeReturn([ve_results EXCEPT
                         !.error = <<"Syntax validation error: ", r.exc>>])
       ELSE IF ~r.value
       THEN VeReturn([ve_results EXCEPT !.error = <<"Invalid email syntax">>])
       ELSE /\ ve_results' = [ve_results EXCEPT !.checks.syntax = TRUE]
            /\ ve_pc' = "validate_domain"
            /\ UNCHANGED <<ve_status, ve_raised>>
    /\ UNCHANGED <<ve_email, ve_domain, ve_dns_env>>
    /\ VeFrame

\* validation_orchestrator.py:95: the domain can take mail
has_mail_server(dns_results) ==
    ~(~get(dns_results, "has_mx", FALSE) /\ ~get(dns_results, "has_a", FALSE))

\* validation_orchestrator.py:90-97: validate_domain handed back a dict
validate_email_dns ==
    /\ ve_pc = "validate_domain"
    /\ ve_calls' = Append(ve_calls, "validate_domain")
    /\ \E e \in DnsEnvs :
          LET dns_results == validate_domain_result(e)
              with_dns == [ve_results EXCEPT !.checks.dns = dns_results]
          IN /\ ve_dns_env' = e
             /\ IF ~has_mail_server(dns_results)
                THEN VeReturn([with_dns EXCEPT
                                  !.error = <<"Domain has no valid mail servers">>])
                ELSE /\ ve_results' = with_dns
                     /\ ve_pc' = "verify_smtp"
                     /\ UNCHANGED <<ve_status, ve_raised>>
    /\ UNCHANGED <<ve_email, ve_domain>>
    /\ VeFrame

\* validation_orchestrator.py:98-105: validate_domain raised; what leaves it is
\* a ValidationError (email_dns_validator.py:101-106), a rate limit hit included
validate_email_dns_raises ==
    /\ ve_pc = "validate_domain"
    /\ ve_calls' = Append(ve_calls, "validate_domain")
    /\ VeReturn([ve_results EXCEPT
                    !.error = <<"DNS validation error: ", "Domain validation failed">>])
    /\ UNCHANGED <<ve_email, ve_domain, ve_dns_env>>
    /\ VeFrame

\* The checks of validation_orchestrator.py:109-136, in the order of the code
FanOut ==
    <<"verify_smtp", "is_disposable_email", "is_role_account", "detect_typo",
      "get_domain_reputation", "spam_trap_detector.check", "catch_all_detector.check">>

IndexOf(name) == CHOOSE i \in 1..Len(FanOut) : FanOut[i] = name

\* a plausible slip: the validity and the score computed right after the
\* reputation lookup, before the spam trap and catch-all checks
after_check_early_score(name) ==
    IF name = "get_domain_reputation" \/ IndexOf(name) = Len(FanOut) THEN "score"
    ELSE FanOut[IndexOf(name) + 1]

\* validation_orchestrator.py:110-138: the statement after a check that returned
after_check(name) ==
    IF IndexOf(name) = Len(FanOut) THEN "score" ELSE FanOut[IndexOf(name) + 1]

\* What the collaborators hand back. Each may also raise: the detectors let
\* errors through (catch_all_detector.py:54-59, disposable_email_detector.py:25).
BoolOutcomes(name) == {Returns(TRUE), Returns(FALSE), Raises(name)}
SmtpOutcomes == {Returns([valid |-> b]) : b \in BOOLEAN} \cup {Raises("verify_smtp")}
TypoOutcomes == {Returns(<<>>), Returns(<<"Did you mean">>), Raises("detect_typo")}
ReputationOutcomes == {Returns(n) : n \in {0, 50, 80, 100}} \cup {Raises("get_domain_reputation")}

\* validation_orchestrator.py:150-153: except Exception around lines 109-148
validation_error_handler(results, exc) ==
    VeReturn([results EXCEPT !.error = <<"Validation error: ", exc>>])

\* one awaited check of lines 109-136: it raised, or its value was stored
FanOutStep(name, out, stored) ==
    /\ ve_pc = name
    /\ ve_calls' = Append(ve_calls, name)
    /\ IF out.kind = "raises"
       THEN validation_error_handler(ve_results, out.exc)
       ELSE /\ ve_results' = stored
            /\ ve_pc' = after_check(name)
            /\ UNCHANGED <<ve_status, ve_raised>>
    /\ UNCHANGED <<ve_email, ve_domain, ve_dns_env>>
    /\ VeFrame

\* validation_orchestrator.py:110-111
validate_email_smtp ==
    \E out \in SmtpOutcomes :
        FanOutStep("verify_smtp", out,
                   [ve_results EXCEPT !.checks.smtp = [verified |-> out.value]])

\* validation_orchestrator.py:114-115
validate_email_disposable ==
    \E out \in BoolOutcomes("is_disposable_email") :
        FanOutStep("is_disposable_email", out,
                   [ve_results EXCEPT !.checks.disposable = out.value])

\* validation_orchestrator.py:118-119
validate_email_role_account ==
    \E out \in BoolOutcomes("is_role_account") :
        FanOutStep("is_role_account", out,
                   [ve_results EXCEPT !.checks.role_account = out.value])

\* validation_orchestrator.py:122-124
validate_email_typo ==
    \E out \in TypoOutcomes :
        FanOutStep("detect_typo", out,
                   IF out.value # <<>>
                   THEN [ve_results EXCEPT !.checks.typos = out.value]
                   ELSE ve_results)

\* validation_orchestrator.py:127-128
validate_email_reputation ==
    \E out \in ReputationOutcomes :
        FanOutStep("get_domain_reputation", out,
                   [ve_results EXCEPT !.checks.reputation = out.value])

\* validation_orchestrator.py:131-132
validate_email_spam_trap ==
    \E out \in BoolOutcomes("spam_trap_detector.check") :
        FanOutStep("spam_trap_detector.check", out,
                   [ve_results EXCEPT !.checks.spam_trap = out.value])

\* validation_orchestrator.py:135-136
validate_email_catch_all ==
    \E out \in BoolOutcomes("catch_all_detector.check") :
        FanOutStep("catch_all_detector.check", out,
                   [ve_results EXCEPT !.checks.catch_all = out.value])

\* validation_orchestrator.py:233-272: the module's own calculate_risk_score,
\* which is the one line 146 reaches (the def rebinds the imported name). It
\* reads flat keys of its argument.
RiskKeys ==
    <<"syntax_valid", "domain_exists", "mx_records_valid", "smtp_verified", "has_ptr",
      "disposable", "role_account", "spam_trap", "catch_all", "domain_reputation">>

Penalty(cond, points) == IF cond THEN points ELSE 0

Min(a, b) == IF a <= b THEN a ELSE b

calculate_risk_score(vr) ==
    IF \E i \in 1..Len(RiskKeys) : RiskKeys[i] \notin DOMAIN vr
    THEN Raises(RiskKeys[CHOOSE i \in 1..Len(RiskKeys) :
                    /\ RiskKeys[i] \notin DOMAIN vr
                    /\ \A j \in 1..(i - 1) : RiskKeys[j] \in DOMAIN vr])
    ELSE Returns(Min(100,
             Penalty(~vr["syntax_valid"], 40) + Penalty(~vr["domain_exists"], 40)
           + Penalty(~vr["mx_records_valid"], 30) + Penalty(~vr["smtp_verified"], 20)
           + Penalty(~vr["has_ptr"], 10) + Penalty(vr["disposable"], 15)
           + Penalty(vr["role_account"], 5) + Penalty(vr["spam_trap"], 40)
           + Penalty(vr["catch_all"], 10)
           + ((100 - vr["domain_reputation"]) * 2) \div 10))

\* a plausible slip: the spam trap test left out of the conjunction
overall_validity_without_spam_trap(results) ==
    /\ results.checks.syntax
    /\ get(results.checks.dns, "has_mx", FALSE)
    /\ ~results.checks.disposable

\* validation_orchestrator.py:139-144
overall_validity(results) ==
    /\ results.checks.syntax
    /\ get(results.checks.dns, "has_mx", FALSE)
    /\ ~results.checks.disposable
    /\ ~results.checks.spam_trap

\* validation_orchestrator.py:138-153: validity, score, return
validate_email_score ==
    /\ ve_pc = "score"
    /\ ve_calls' = Append(ve_calls, "calculate_risk_score")
    /\ LET decided == [ve_results EXCEPT !.is_valid = overall_validity(ve_results)]
           score == calculate_risk_score(decided)
       IN IF score.kind = "raises"
          THEN validation_error_handler(decided, score.exc)
          ELSE VeReturn([decided EXCEPT !.score = score.value])
    /\ UNCHANGED <<ve_email, ve_domain, ve_dns_env>>
    /\ VeFrame

NextEmail ==
    \/ validate_email_extract_domain
    \/ validate_email_syntax
    \/ validate_email_dns
    \/ validate_email_dns_raises
    \/ validate_email_smtp
    \/ validate_email_disposable
    \/ validate_email_role_account
    \/ validate_email_typo
    \/ validate_email_reputation
    \/ validate_email_spam_trap
    \/ validate_email_catch_all
    \/ validate_email_score

SpecEmail == InitEmail /\ [][NextEmail]_vars

(***************************************************************************)
(* Claims about validate_email                                             *)
(***************************************************************************)
Called(name) == \E i \in 1..Len(ve_calls) : ve_calls[i] = name

CalledBefore(name, i) == \E j \in 1..(i - 1) : ve_calls[j] = name

InFanOut(name) == \E k \in 1..Len(FanOut) : FanOut[k] = name

SyntaxInvalid(email) == email # None /\ ~regex_match(email)

VeDone == ve_pc = "done"

\* C2: for every syntactically invalid address validate_email returns
\* is_valid=false with the error "Invalid email syntax", and has started no
\* DNS, SMTP, disposable, reputation or heuristic check.
C2_InvalidSyntaxFailsFast ==
    (VeDone /\ SyntaxInvalid(ve_email)) =>
        /\ ve_status = "returned"
        /\ ve_results.is_valid = FALSE
        /\ ve_results.error = <<"Invalid email syntax">>
        /\ ~Called("validate_domain")
        /\ \A k \in 1..Len(FanOut) : ~Called(FanOut[k])

NoMailRecords(e) == ~e.mx /\ ~e.a /\ ~e.aaaa

DnsAnswered == "mx" \in DOMAIN ve_dns_env

\* C3: for a domain with no MX, no A and no AAAA record validate_email returns
\* is_valid=false, whatever the other checks would hand back.
C3_NoMailRecordsIsInvalid ==
    (VeDone /\ DnsAnswered /\ NoMailRecords(ve_dns_env)) =>
        /\ ve_status = "returned"
        /\ ve_results.is_valid = FALSE

\* C3 witness: a syntactically valid address whose domain has an NS record
\* only; validate_email has returned.
C3_Witness ==
    /\ VeDone
    /\ DnsAnswered
    /\ NoMailRecords(ve_dns_env)
    /\ ve_dns_env.ns
    /\ ve_results.checks.syntax = TRUE
    /\ ve_status = "returned"

\* C5: validate_email never raises; it returns a record, and when the
\* validation could not complete the record has is_valid=false and an error.
C5_NeverRaises ==
    /\ ve_status # "raised"
    /\ (VeDone /\ ~Called("calculate_risk_score")) =>
          /\ ve_results.is_valid = FALSE
          /\ ve_results.error # ErrorNone

\* C6: once DNS resolution has succeeded, every fan-out check is executed,
\* also when one of them raises, and the pipeline reaches scoring.
C6_AllFanOutChecksRun ==
    (VeDone /\ Called("verify_smtp")) =>
        /\ \A k \in 1..Len(FanOut) : Called(FanOut[k])
        /\ Called("calculate_risk_score")

\* C7: within one validate_email call the syntax check has finished before the
\* DNS validation starts, the DNS validation has finished before any fan-out
\* check starts, and the score is computed only after every fan-out check.
C7_SyntaxThenDnsThenFanOutThenScore ==
    \A i \in 1..Len(ve_calls) :
        /\ ve_calls[i] = "validate_domain" =>
              /\ CalledBefore("validate_syntax", i)
              /\ ve_results.checks.syntax = TRUE
        /\ InFanOut(ve_calls[i]) =>
              /\ CalledBefore("validate_domain", i)
              /\ DnsAnswered
        /\ ve_calls[i] = "calculate_risk_score" =>
              \A k \in 1..Len(FanOut) : CalledBefore(FanOut[k], i)

\* C7 witness: a call that went through all the stages to the scoring.
C7_Witness ==
    /\ VeDone
    /\ ve_status = "returned"
    /\ Called("calculate_risk_score")
    /\ Len(ve_calls) = Len(FanOut) + 4

\* the scenario of C17: a well-formed address, MX present, SMTP answer 250,
\* reputation 80, not disposable, no typo, role or trap match; validate_email
\* has gone through the scoring and ended
HealthyRun ==
    /\ VeDone
    /\ ve_email # None /\ regex_match(ve_email)
    /\ DnsAnswered /\ ve_dns_env.mx
    /\ Called("calculate_risk_score")
    /\ ve_results.checks.smtp = [verified |-> [valid |-> TRUE]]
    /\ ~ve_results.checks.disposable
    /\ ~ve_results.checks.role_account
    /\ ve_results.checks.typos = <<>>
    /\ ve_results.checks.reputation = 80
    /\ ~ve_results.checks.spam_trap

\* C17: validate_email of a well-formed address with MX present, SMTP answer
\* 250, reputation score 80, not disposable and no typo, role or trap match
\* returns is_valid=true, a score in the upper half of 0..100,
\* risk_level="low" and no error.
C17_HealthyAddressScoresLowRisk ==
    HealthyRun =>
        /\ ve_status = "returned"
        /\ ve_results.is_valid = TRUE
        /\ ve_results.error = ErrorNone
        /\ ve_results.score >= 50
        /\ ve_results.score <= 100
        /\ "risk_level" \in DOMAIN ve_results
        /\ ve_results.risk_level = "low"

ResultFields == {"email", "is_valid", "score", "risk_level", "checks", "created_at", "error"}

\* C18: every result validate_email returns, on success and on every early
\* exit, has the fields email, is_valid, score, risk_level, checks, created_at
\* and error, with score in [0,100] and risk_level one of low, medium, high.
C18_ResultHasAllFields ==
    ve_status = "returned" =>
        /\ ResultFields \subseteq DOMAIN ve_results
        /\ ve_results.score \in 0..100
        /\ ve_results.risk_level \in {"low", "medium", "high"}

\* C27: validate_email ends in the error state after DNS only when the domain
\* has no MX and no A/AAAA record: for a domain with an A or AAAA record but
\* no MX, validation goes on to the fan-out checks instead of returning
\* "Domain has no valid mail servers".
C27_AddressRecordPassesDnsGate ==
    (VeDone /\ DnsAnswered /\ ~ve_dns_env.mx /\ (ve_dns_env.a \/ ve_dns_env.aaaa)) =>
        /\ Called("verify_smtp")
        /\ ~(ve_status = "returned"
             /\ ve_results.error = <<"Domain has no valid mail servers">>)

\* C36: every result returned by validate_email with is_valid=true has error
\* = None: a result that carries an error message is never reported valid, also
\* when a step after the validity decision (scoring) fails.
C36_ValidResultHasNoError ==
    (ve_status = "returned" /\ ve_results.is_valid) => ve_results.error = ErrorNone

\* C37: validate_email reports is_valid=true only if the syntax check passed,
\* the domain has MX records, the address is not disposable and it is not a
\* spam trap.
C37_ValidOnlyIfAllFourHold ==
    (ve_status = "returned" /\ ve_results.is_valid) =>
        /\ validate_syntax(ve_email) = Returns(TRUE)
        /\ DnsAnswered
        /\ ve_dns_env.mx
        /\ ~ve_results.checks.disposable
        /\ ~ve_results.checks.spam_trap

\* C37 witness: an address reported valid, on a domain that has MX records and
\* no address record; the role account check matched and did not stop it.
C37_Witness ==
    /\ ve_status = "returned"
    /\ ve_results.is_valid
    /\ ve_dns_env.mx
    /\ ~ve_dns_env.a
    /\ ve_results.checks.role_account
    /\ Called("calculate_risk_score")

(***************************************************************************)
(* Batch validation: validation_orchestrator.validate_emails_batch,        *)
(* batch_validator.validate_emails_batch, batch_processing.process_email_batch *)
(***************************************************************************)
EmailIds == {"e1", "e2"}

BatchInputs == UNION {[1..n -> EmailIds] : n \in 0..MaxEmails}

BatchModules == {"validation_orchestrator", "batch_validator", "batch_processing"}

Pending == [kind |-> "pending", value |-> NoValue, exc |-> ""]

\* a plausible slip: the chunk not cut at hi
slice_to_end(s, lo, hi) == SubSeq(s, lo + 1, Len(s))

\* s[lo:hi] of Python, lo and hi counted from 0
slice(s, lo, hi) == SubSeq(s, lo + 1, Min(hi, Len(s)))

\* validate_email(e) run on its own: a result record, or an exception
validate_email_alone(e) ==
    CASE b_env[e] = "valid" ->
            Returns([email |-> e, is_valid |-> TRUE, error |-> ErrorNone])
      [] b_env[e] = "invalid" ->
            Returns([email |-> e, is_valid |-> FALSE, error |-> <<"Domain has no valid mail servers">>])
      [] b_env[e] = "raises" ->
            Raises("AttributeError")

InitBatch ==
    /\ b_pc = "start"
    /\ b_impl \in BatchModules
    /\ b_emails \in BatchInputs
    /\ b_size \in 1..MaxBatchSize
    /\ b_env \in [EmailIds -> {"valid", "invalid", "raises"}]
    /\ b_i = 0
    /\ b_tasks = <<>>
    /\ b_completed = <<>>
    /\ b_results = <<>>
    /\ b_return = NoValue
    /\ OthersIdle("batch")

\* the addresses whose validations are in flight
CurrentBatch ==
    IF b_impl = "batch_processing" THEN b_emails ELSE slice(b_emails, b_i, b_i + b_size)

\* positions of the current chunk in the order their validations ended
ChunkOrder ==
    LET n == Len(b_tasks)
        first == Len(b_completed) - n
    IN [k \in 1..n |-> b_completed[first + k] - b_i]

\* a plausible slip: results taken in the order the validations end
gather_as_completed(tasks, order) == [k \in 1..Len(tasks) |-> tasks[order[k]]]

\* asyncio.gather(..., return_exceptions=True): one entry per awaitable, in
\* the order of the awaitables (batch_validator.py:26-29, batch_processing.py:21)
gather(tasks, order) == tasks

\* validation_orchestrator.py:175-186 and 216: what validate_emails_batch hands
\* back: the empty summary for no addresses, else the list results, to which
\* nothing was appended
orchestrator_batch_value(emails) ==
    IF emails = <<>>
    THEN [results |-> <<>>,
          summary |-> [total |-> 0, valid |-> 0, invalid |-> 0, errors |-> 0]]
    ELSE <<>>

\* validation_orchestrator.py:175-216: the whole function. process_batch is
\* defined and never called; the chunk loop of lines 207-214 follows the
\* return of process_batch and is not part of this function's body.
orchestrator_validate_emails_batch ==
    /\ b_pc = "start"
    /\ b_impl = "validation_orchestrator"
    /\ b_return' = Returns(orchestrator_batch_value(b_emails))
    /\ b_pc' = "done"
    /\ UNCHANGED <<b_impl, b_emails, b_size, b_env, b_i, b_tasks, b_completed, b_results>>
    /\ BatchFrame

\* batch_validator.py:24-29 and 45: the head of the for loop; the coroutines of
\* one chunk are created together, or the loop is over and results is returned
batch_validator_next_chunk ==
    /\ b_pc = "start"
    /\ b_impl = "batch_validator"
    /\ IF b_i >= Len(b_emails)
       THEN /\ b_return' = Returns(b_results)
            /\ b_pc' = "done"
            /\ UNCHANGED b_tasks
       ELSE /\ b_tasks' = [k \in 1..Len(CurrentBatch) |-> Pending]
            /\ b_pc' = "gather"
            /\ UNCHANGED b_return
    /\ UNCHANGED <<b_impl, b_emails, b_size, b_env, b_i, b_completed, b_results>>
    /\ BatchFrame

\* one validate_email of the chunk ends, in any order among its siblings
validate_email_completes ==
    /\ b_pc = "gather"
    /\ \E k \in 1..Len(b_tasks) :
          /\ b_tasks[k] = Pending
          /\ b_tasks' = [b_tasks EXCEPT ![k] = validate_email_alone(CurrentBatch[k])]
          /\ b_completed' = Append(b_completed, b_i + k)
    /\ UNCHANGED <<b_pc, b_impl, b_emails, b_size, b_env, b_i, b_results, b_return>>
    /\ BatchFrame

AllEnded == \A k \in 1..Len(b_tasks) : b_tasks[k] # Pending

\* batch_validator.py:33-43: the entry for one gathered result
batch_validator_entry(email, result) ==
    IF result.kind = "raises"
    THEN [email |-> email, is_valid |-> FALSE, error |-> <<result.exc>>,
          checks |-> EmptyDict, score |-> 0]
    ELSE result.value

\* batch_processing.py:23-33: the entry for one gathered result
process_email_batch_entry(email, result) ==
    IF result.kind = "raises"
    THEN [email |-> email, is_valid |-> FALSE, status |-> "Error", error |-> <<result.exc>>]
    ELSE result.value

\* batch_validator.py:26-43: gather hands back, the results are appended
batch_validator_collect ==
    /\ b_pc = "gather"
    /\ b_impl = "batch_validator"
    /\ AllEnded
    /\ LET batch_results == gather(b_tasks, ChunkOrder) IN
       b_results' = b_results \o
           [j \in 1..Len(batch_results) |->
               batch_validator_entry(CurrentBatch[j], batch_results[j])]
    /\ b_i' = b_i + b_size
    /\ b_tasks' = <<>>
    /\ b_pc' = "start"
    /\ UNCHANGED <<b_impl, b_emails, b_size, b_env, b_completed, b_return>>
    /\ BatchFrame

\* batch_processing.py:17-21: create_task for every address of the batch
process_email_batch_start ==
    /\ b_pc = "start"
    /\ b_impl = "batch_processing"
    /\ b_tasks' = [k \in 1..Len(b_emails) |-> Pending]
    /\ b_pc' = "gather"
    /\ UNCHANGED <<b_impl, b_emails, b_size, b_env, b_i, b_completed, b_results, b_return>>
    /\ BatchFrame

\* batch_processing.py:21-35: gather hands back, the list is built and returned
process_email_batch_collect ==
    /\ b_pc = "gather"
    /\ b_impl = "batch_processing"
    /\ AllEnded
    /\ LET completed_tasks == gather(b_tasks, ChunkOrder) IN
       /\ b_results' = [j \in 1..Len(completed_tasks) |->
                           process_email_batch_entry(b_emails[j], completed_tasks[j])]
       /\ b_return' = Returns(b_results')
    /\ b_tasks' = <<>>
    /\ b_pc' = "done"
    /\ UNCHANGED <<b_impl, b_emails, b_size, b_env, b_i, b_completed>>
    /\ BatchFrame

NextBatch ==
    \/ orchestrator_validate_emails_batch
    \/ batch_validator_next_chunk
    \/ validate_email_completes
    \/ batch_validator_collect
    \/ process_email_batch_start
    \/ process_email_batch_collect

SpecBatch == InitBatch /\ [][NextBatch]_vars

(***************************************************************************)
(* Claims about batch validation                                           *)
(***************************************************************************)
BatchDone == b_pc = "done"

\* C1: for every non-empty list and every batch_size >= 1, validate_emails_batch
\* returns a list with one entry per input address, entry i carrying emails[i],
\* whatever the order in which the validations ended.
C1_BatchKeepsLengthAndOrder ==
    (/\ BatchDone
     /\ b_impl \in {"validation_orchestrator", "batch_validator"}
     /\ b_emails # <<>>)
        => /\ b_return.kind = "returns"
           /\ Len(b_return.value) = Len(b_emails)
           /\ \A i \in 1..Len(b_emails) : b_return.value[i].email = b_emails[i]

\* C4: in a batch, the position of an address whose validation raises holds a
\* degraded record (the address, is_valid=false, the error message), every
\* other position holds the result its address gets when validated alone, and
\* the batch call itself does not raise.
C4_RaisingEmailIsDegradedInPlace ==
    (BatchDone /\ b_impl \in {"batch_validator", "batch_processing"}) =>
        /\ b_return.kind = "returns"
        /\ Len(b_return.value) = Len(b_emails)
        /\ \A i \in 1..Len(b_emails) :
              LET alone == validate_email_alone(b_emails[i])
                  entry == b_return.value[i]
              IN IF alone.kind = "raises"
                 THEN /\ entry.email = b_emails[i]
                      /\ entry.is_valid = FALSE
                      /\ entry.error = <<alone.exc>>
                 ELSE entry = alone.value

\* C4 witness: three addresses in chunks of two; the first raises, the second
\* is valid and ended before the first.
C4_Witness ==
    /\ BatchDone
    /\ b_impl = "batch_validator"
    /\ Len(b_emails) = 3
    /\ b_size = 2
    /\ validate_email_alone(b_emails[1]).kind = "raises"
    /\ validate_email_alone(b_emails[2]).kind = "returns"
    /\ b_completed[1] = 2
    /\ b_return.value[2].is_valid = TRUE

\* the validations of the call that have started and not ended
InFlight == {k \in 1..Len(b_tasks) : b_tasks[k] = Pending}

\* C28: in validate_emails_batch(emails, batch_size) of batch_validator.py, at
\* every instant at most batch_size validations of the call are in flight,
\* for every input length.
C28_AtMostBatchSizeInFlight ==
    b_impl = "batch_validator" => Cardinality(InFlight) <= b_size

\* C28 witness: three addresses in chunks of two; the first chunk has ended
\* in full, and the validation of the third address is in flight alone.
C28_Witness ==
    /\ b_impl = "batch_validator"
    /\ Len(b_emails) = 3
    /\ b_size = 2
    /\ b_i = 2
    /\ Len(b_completed) = 2
    /\ Cardinality(InFlight) = 1

(***************************************************************************)
(* is_disposable_email (disposable_email_detector.py:11-33)                *)
(***************************************************************************)
\* list[-1] of Python
last(s) == s[Len(s)]

\* What requests.get can do (line 23): raise a RequestException (connection
\* error, timeout) or hand back a response with a status and a body. The body
\* is no JSON at all, JSON that is no object, or an object with or without the
\* key "is_disposable".
StatusCodes == {200, 404, 500}
Bodies ==
    {[kind |-> "not_json"], [kind |-> "json_list"], [kind |-> "object", data |-> EmptyDict]}
    \cup {[kind |-> "object", data |-> [is_disposable |-> b]] : b \in BOOLEAN}
GetOutcomes ==
    {Raises("ConnectionError"), Raises("Timeout")}
    \cup {Returns([status_code |-> c, body |-> b]) : c \in StatusCodes, b \in Bodies}

\* response.json() (line 25). What it raises for a body that is no JSON depends
\* on the installed requests, which the repository does not pin: from 2.27 on
\* requests.exceptions.JSONDecodeError, a RequestException; before that a
\* ValueError.
json(body) ==
    CASE body.kind = "object" -> {Returns([type |-> "dict", data |-> body.data])}
      [] body.kind = "json_list" -> {Returns([type |-> "list", data |-> EmptyDict])}
      [] body.kind = "not_json" -> {Raises("requests.JSONDecodeError"), Raises("ValueError")}

\* the exceptions `except requests.RequestException` (line 30) catches
RequestException == {"ConnectionError", "Timeout", "requests.JSONDecodeError"}

InitDisposable ==
    /\ de_pc = "start"
    /\ de_email \in Strings
    /\ de_domain = <<>>
    /\ de_response = NoValue
    /\ de_failure = ""
    /\ de_outcome = NoValue
    /\ OthersIdle("disposable")

DisposableEnds(outcome) ==
    /\ de_outcome' = outcome
    /\ de_pc' = "done"

\* lines 30-33 for an exception raised inside the try: caught and answered
\* with False, or let through
disposable_except(exc) ==
    IF exc \in RequestException THEN DisposableEnds(Returns(FALSE))
    ELSE DisposableEnds(Raises(exc))

\* disposable_email_detector.py:21-23: the domain and the HTTP request
is_disposable_email_get ==
    /\ de_pc = "start"
    /\ de_domain' = last(split(de_email, "@"))
    /\ \E out \in GetOutcomes :
          IF out.kind = "raises"
          THEN /\ de_failure' = out.exc
               /\ disposable_except(out.exc)
               /\ UNCHANGED de_response
          ELSE /\ de_response' = out.value
               /\ de_pc' = "response"
               /\ UNCHANGED <<de_failure, de_outcome>>
    /\ UNCHANGED de_email
    /\ OthersUnchanged("disposable")

\* disposable_email_detector.py:24-29: the status test and the body
is_disposable_email_response ==
    /\ de_pc = "response"
    /\ IF de_response.status_code = 200
       THEN \E data \in json(de_response.body) :
               IF data.kind = "raises"
               THEN /\ de_failure' = "body"
                    /\ disposable_except(data.exc)
               ELSE IF data.value.type = "list"
               THEN \* data.get on a list
                    /\ de_failure' = "body"
                    /\ disposable_except("AttributeError")
               ELSE /\ DisposableEnds(Returns(get(data.value.data, "is_disposable", FALSE)))
                    /\ UNCHANGED de_failure
       ELSE /\ de_failure' = "status"
            /\ DisposableEnds(Returns(FALSE))
    /\ UNCHANGED <<de_email, de_domain, de_response>>
    /\ OthersUnchanged("disposable")

NextDisposable ==
    \/ is_disposable_email_get
    \/ is_disposable_email_response

SpecDisposable == InitDisposable /\ [][NextDisposable]_vars

\* C12: is_disposable_email fails open: whenever the remote lookup fails
\* (network error, timeout, non-200 status, unreadable response body) it
\* returns false and raises nothing.
C12_DisposableFailsOpen ==
    (de_pc = "done" /\ de_failure # "") => de_outcome = Returns(FALSE)

(***************************************************************************)
(* DomainReputationChecker.check_reputation                                *)
(* (domain_reputation_checker.py:59-276)                                   *)
(*                                                                         *)
(* Scores are floats in the code. Here a sub-score s is the integer        *)
(* s * max_age and a total t is the integer t * 100 * max_age, which is    *)
(* exact for every value the sub-checks can hand back.                     *)
(***************************************************************************)
max_age == 5 * 365                       \* line 152, in days

Scaled(score) == score * max_age         \* a sub-score, in units of 1/max_age

Total(score) == score * 100 * max_age    \* a total, in units of 1/(100*max_age)

\* WEIGHTS (lines 26-32), in percent, in the order the sub-checks are called
SubChecks == <<"domain_age", "blacklist_status", "ssl_status", "web_presence", "mail_config">>
WEIGHTS == <<25, 30, 15, 15, 15>>

BLACKLIST_SERVERS == 5                   \* len(BLACKLIST_SERVERS), lines 35-41

Max(a, b) == IF a >= b THEN a ELSE b

\* ages of a domain in days; negative for a creation date in the future
AgeDays == {-1, 0, 1, 365, 1000, 1095, 1824, 1825, 1826, 4000}

ScoreOf(n) == [kind |-> "returns", value |-> n, exc |-> ""]
ScoreNone == [kind |-> "returns_none", value |-> 0, exc |-> ""]

\* What a sub-check can hand back.
\*  _check_domain_age (133-158): the clamped age score, 50 when the lookup
\*    raises, None when the whois answer has no creation date;
\*  _check_blacklists (160-191): the share of the servers that answered; it has
\*    no try of its own around the executor;
\*  _check_ssl (193-214): 0 or 100;  _check_web_presence (216-234): 0 or 50;
\*  _check_mail_config (236-276): 40/30/30 for each missing record, 50 on error.
SubOutcomes(name) ==
    CASE name = "domain_age" ->
            {ScoreOf(Max(0, Min(Scaled(100), (max_age - d) * 100))) : d \in AgeDays}
            \cup {ScoreOf(Scaled(50)), ScoreNone}
      [] name = "blacklist_status" ->
            {ScoreOf((Scaled(k) * 100) \div BLACKLIST_SERVERS) : k \in 0..BLACKLIST_SERVERS}
            \cup {Raises("RuntimeError")}
      [] name = "ssl_status" -> {ScoreOf(Scaled(0)), ScoreOf(Scaled(100))}
      [] name = "web_presence" -> {ScoreOf(Scaled(0)), ScoreOf(Scaled(50))}
      [] name = "mail_config" ->
            {ScoreOf(Scaled(Penalty(~mx, 40) + Penalty(~spf, 30) + Penalty(~dmarc, 30))) :
                mx \in BOOLEAN, spf \in BOOLEAN, dmarc \in BOOLEAN}
            \cup {ScoreOf(Scaled(50))}

InitReputation ==
    /\ rp_pc = "sub_checks"
    /\ rp_scores = <<>>
    /\ rp_raised = ""
    /\ rp_result = NoValue
    /\ OthersIdle("reputation")

\* a plausible slip: `>` for `>=` in the two threshold tests
risk_level_strict(total_score) ==
    IF total_score > Total(70) THEN "high"
    ELSE IF total_score > Total(40) THEN "medium"
    ELSE "low"

\* lines 56-57 and 99-104
risk_level(total_score) ==
    IF total_score >= Total(70) THEN "high"
    ELSE IF total_score >= Total(40) THEN "medium"
    ELSE "low"

\* a plausible slip: the failure answered with the neutral score
reputation_except_neutral(e) == [score |-> Total(50), risk_level |-> "medium", error |-> e]

\* lines 125-131: except Exception around the whole check
reputation_except(e) == [score |-> Total(100), risk_level |-> "high", error |-> e]

\* lines 75-87: the next sub-check is called; its value is kept, or what it
\* raises reaches the except clause of line 125
check_reputation_sub_check ==
    /\ rp_pc = "sub_checks"
    /\ Len(rp_scores) < Len(SubChecks)
    /\ \E out \in SubOutcomes(SubChecks[Len(rp_scores) + 1]) :
          IF out.kind = "raises"
          THEN /\ rp_raised' = out.exc
               /\ rp_result' = reputation_except(out.exc)
               /\ rp_pc' = "done"
               /\ UNCHANGED rp_scores
          ELSE /\ rp_scores' = Append(rp_scores, out)
               /\ UNCHANGED <<rp_pc, rp_raised, rp_result>>
    /\ OthersUnchanged("reputation")

\* lines 90-123: the weighted sum, the risk level, the return. A sub-score of
\* None makes the product of line 91 raise TypeError.
check_reputation_total ==
    /\ rp_pc = "sub_checks"
    /\ Len(rp_scores) = Len(SubChecks)
    /\ IF \E i \in 1..Len(SubChecks) : rp_scores[i] = ScoreNone
       THEN /\ rp_raised' = "TypeError"
            /\ rp_result' = reputation_except("TypeError")
       ELSE LET RECURSIVE sum(_)
                sum(i) == IF i = 0 THEN 0
                          ELSE sum(i - 1) + rp_scores[i].value * WEIGHTS[i]
                total_score == sum(Len(SubChecks))
            IN /\ rp_result' = [score |-> total_score,
                                risk_level |-> risk_level(total_score), error |-> ""]
               /\ UNCHANGED rp_raised
    /\ rp_pc' = "done"
    /\ UNCHANGED rp_scores
    /\ OthersUnchanged("reputation")

NextReputation ==
    \/ check_reputation_sub_check
    \/ check_reputation_total

SpecReputation == InitReputation /\ [][NextReputation]_vars

(***************************************************************************)
(* Claims about check_reputation                                           *)
(***************************************************************************)
ReputationDone == rp_pc = "done"

\* the sub-checks check_reputation has called: those that handed a value back
\* and the one that raised
SubCheckCalled(i) == i <= Len(rp_scores) + (IF rp_raised = "RuntimeError" THEN 1 ELSE 0)

\* C13: check_reputation never raises: when an exception reaches it during the
\* check (a sub-check lets one through, or the weighted sum fails) it returns
\* score=100 and risk_level="high" together with the error message.
C13_ReputationNeverRaises ==
    ReputationDone =>
        /\ DOMAIN rp_result = {"score", "risk_level", "error"}
        /\ rp_raised # "" =>
              /\ rp_result.score = Total(100)
              /\ rp_result.risk_level = "high"
              /\ rp_result.error = rp_raised

\* C13 witness: the domain age came back as None, all five sub-checks ran and
\* the weighted sum raised TypeError.
C13_Witness ==
    /\ ReputationDone
    /\ Len(rp_scores) = Len(SubChecks)
    /\ rp_scores[1] = ScoreNone
    /\ rp_raised = "TypeError"
    /\ rp_result.score = Total(100)

\* C14: when the blacklist sub-check throws, the other four sub-checks (domain
\* age, SSL, web presence, mail config) are still executed, and the total
\* score is in [0,100].
C14_BlacklistFailureIsIsolated ==
    (ReputationDone /\ rp_raised = "RuntimeError") =>
        /\ \A i \in 1..Len(SubChecks) : SubCheckCalled(i)
        /\ rp_result.score >= 0
        /\ rp_result.score <= Total(100)

\* C15: when no exception occurs, score = 0.25*age + 0.30*blacklist + 0.15*ssl
\* + 0.15*web + 0.15*mail, the score is in [0,100], and risk_level is "high" iff
\* score >= 70, "medium" iff 40 <= score < 70, "low" otherwise.
C15_WeightedSumAndRiskTiers ==
    (ReputationDone /\ rp_raised = "") =>
        LET score == rp_result.score IN
        /\ score = 25 * rp_scores[1].value + 30 * rp_scores[2].value
                   + 15 * rp_scores[3].value + 15 * rp_scores[4].value
                   + 15 * rp_scores[5].value
        /\ score >= 0
        /\ score <= 100 * 100 * max_age
        /\ rp_result.risk_level = "high" <=> score >= 70 * 100 * max_age
        /\ rp_result.risk_level = "medium" <=>
              (score >= 40 * 100 * max_age /\ score < 70 * 100 * max_age)
        /\ rp_result.risk_level = "low" <=> score < 40 * 100 * max_age
        /\ rp_result.risk_level \in {"high", "medium", "low"}

\* C15 witness: a total of exactly 70 (age 100, blacklist 100, SSL 100, web 0,
\* mail 0), rated high.
C15_Witness ==
    /\ ReputationDone
    /\ rp_raised = ""
    /\ rp_scores[4].value = 0
    /\ rp_scores[5].value = 0
    /\ rp_result.score = 70 * 100 * max_age
    /\ rp_result.risk_level = "high"

\* C32: _check_domain_age returns a number in [0,100] on every path, 50 when
\* the age cannot be determined (WHOIS error or no creation date), so a missing
\* creation date alone does not turn the whole reputation check into the failure
\* result.
C32_DomainAgeIsAlwaysANumber ==
    /\ Len(rp_scores) >= 1 =>
          /\ rp_scores[1].kind = "returns"
          /\ rp_scores[1].value >= Scaled(0)
          /\ rp_scores[1].value <= Scaled(100)
    /\ (ReputationDone /\ Len(rp_scores) = Len(SubChecks)) =>
          /\ rp_raised = ""
          /\ rp_result.error = ""

(***************************************************************************)
(* risk_score.calculate_risk_score (risk_score.py:4-53)                    *)
(***************************************************************************)
\* Reputation scores: documented as 0..100; -15 and 150 stand for what an
\* unvalidated source can deliver.
ReputationScores == {-15, 0, 55, 100, 150}

\* The dicts the function is handed. The DNS dict may lack its keys, the "smtp"
\* entry may be missing and the reputation dict may lack "score" (all three are
\* read with .get).
ValidationResults ==
    LET DnsDicts == {EmptyDict} \cup [has_mx : BOOLEAN, has_a : BOOLEAN, has_ptr : BOOLEAN]
        ReputationDicts == {EmptyDict} \cup {[score |-> n] : n \in ReputationScores}
    IN [checks :
          [syntax : [is_valid : BOOLEAN], dns : DnsDicts, smtp : [verified : BOOLEAN],
           disposable : [is_disposable : BOOLEAN], spam_trap : [is_trap : BOOLEAN],
           reputation : ReputationDicts]
          \cup
          [syntax : [is_valid : BOOLEAN], dns : DnsDicts,
           disposable : [is_disposable : BOOLEAN], spam_trap : [is_trap : BOOLEAN],
           reputation : ReputationDicts]]

\* int(x / d): Python's float division followed by truncation towards zero
int_div(x, d) == IF x >= 0 THEN x \div d ELSE -((-x) \div d)

\* a plausible slip: the bonus given to disposable addresses
disposable_points_inverted(checks) == IF checks.disposable.is_disposable THEN 10 ELSE 0

\* risk_score.py:42-43
disposable_points(checks) == IF ~checks.disposable.is_disposable THEN 10 ELSE 0

\* risk_score.py:13-53
risk_score_calculate_risk_score(validation_result) ==
    LET checks == validation_result.checks
        dns_score == Penalty(get(checks.dns, "has_mx", FALSE), 15)
                     + Penalty(get(checks.dns, "has_a", FALSE), 10)
                     + Penalty(get(checks.dns, "has_ptr", FALSE), 5)
        reputation_score == get(checks.reputation, "score", 0)
        score == Penalty(checks.syntax.is_valid, 20)
                 + Min(dns_score, 30)
                 + Penalty(get(get(checks, "smtp", EmptyDict), "verified", FALSE), 20)
                 + disposable_points(checks)
                 + Penalty(~checks.spam_trap.is_trap, 10)
                 + int_div(10 * reputation_score, 100)
    IN Min(Max(score, 0), 100)

\* the results that differ from vr in one check, which fails in vr and passes
\* in the other (for the reputation: a higher score)
OneMorePassing(vr) ==
    LET c == vr.checks
        DnsKeys == {"has_mx", "has_a", "has_ptr"}
        checks ==
            (IF ~c.syntax.is_valid THEN {[c EXCEPT !.syntax.is_valid = TRUE]} ELSE {})
            \cup {[c EXCEPT !.dns[k] = TRUE] : k \in {k \in DOMAIN c.dns : ~c.dns[k]}}
            \cup (IF c.dns = EmptyDict
                  THEN {[c EXCEPT !.dns = [x \in DnsKeys |-> x = k]] : k \in DnsKeys}
                  ELSE {})
            \cup (IF "smtp" \notin DOMAIN c
                  THEN {[x \in DOMAIN c \cup {"smtp"} |->
                            IF x = "smtp" THEN [verified |-> TRUE] ELSE c[x]]}
                  ELSE IF ~c.smtp.verified THEN {[c EXCEPT !.smtp.verified = TRUE]}
                  ELSE {})
            \cup (IF c.disposable.is_disposable
                  THEN {[c EXCEPT !.disposable.is_disposable = FALSE]} ELSE {})
            \cup (IF c.spam_trap.is_trap
                  THEN {[c EXCEPT !.spam_trap.is_trap = FALSE]} ELSE {})
            \cup {[c EXCEPT !.reputation = [score |-> n]] :
                    n \in {n \in ReputationScores : n > get(c.reputation, "score", 0)}}
    IN {[checks |-> d] : d \in checks}

InitRiskScore ==
    /\ rk_pc = "call"
    /\ rk_input \in ValidationResults
    /\ rk_scores = <<>>
    /\ OthersIdle("risk_score")

\* risk_score.py:4-53: one call
calculate_risk_score_call ==
    /\ rk_pc = "call"
    /\ rk_scores' = Append(rk_scores, risk_score_calculate_risk_score(rk_input))
    /\ rk_pc' = "scored"
    /\ UNCHANGED rk_input
    /\ OthersUnchanged("risk_score")

\* the caller comes back with a result in which one more check passes
one_more_check_passes ==
    /\ rk_pc = "scored"
    /\ Len(rk_scores) <= MaxChanges
    /\ \E w \in OneMorePassing(rk_input) : rk_input' = w
    /\ rk_pc' = "call"
    /\ UNCHANGED rk_scores
    /\ OthersUnchanged("risk_score")

NextRiskScore ==
    \/ calculate_risk_score_call
    \/ one_more_check_passes

SpecRiskScore == InitRiskScore /\ [][NextRiskScore]_vars

Truth(b) == IF b THEN 1 ELSE 0

RiskScored == rk_pc = "scored"

\* C16: risk_score.calculate_risk_score is a function of the check results: its
\* value is always an integer in [0,100]; for a reputation score in 0..100 it
\* equals the sum of the allotments (syntax 20, DNS 15 + 10 + 5, SMTP 20,
\* not-disposable 10, not-spam-trap 10, reputation a tenth of its score); and
\* changing one check from failing to passing never lowers it.
C16_RiskScoreRangeSumMonotone ==
    /\ \A i \in 1..Len(rk_scores) : rk_scores[i] \in 0..100
    /\ \A i \in 1..(Len(rk_scores) - 1) : rk_scores[i] <= rk_scores[i + 1]
    /\ RiskScored =>
          rk_scores[Len(rk_scores)] = risk_score_calculate_risk_score(rk_input)
    /\ (RiskScored /\ get(rk_input.checks.reputation, "score", 0) \in 0..100) =>
          LET c == rk_input.checks
              dns == 15 * Truth("has_mx" \in DOMAIN c.dns /\ c.dns.has_mx)
                     + 10 * Truth("has_a" \in DOMAIN c.dns /\ c.dns.has_a)
                     + 5 * Truth("has_ptr" \in DOMAIN c.dns /\ c.dns.has_ptr)
              reputation == IF c.reputation = EmptyDict THEN 0
                            ELSE c.reputation.score \div 10
          IN /\ dns <= 30
             /\ reputation <= 10
             /\ rk_scores[Len(rk_scores)] =
                   20 * Truth(c.syntax.is_valid) + dns
                   + 20 * Truth("smtp" \in DOMAIN c /\ c.smtp.verified)
                   + 10 * Truth(~c.disposable.is_disposable)
                   + 10 * Truth(~c.spam_trap.is_trap) + reputation

\* C16 witness: a disposable address scored, then scored again as
\* not disposable, the score going up by the allotment of 10.
C16_Witness ==
    /\ RiskScored
    /\ Len(rk_scores) = 2
    /\ ~rk_input.checks.disposable.is_disposable
    /\ rk_scores[2] = rk_scores[1] + 10
    /\ rk_scores[2] < 100

(***************************************************************************)
(* validate_email called twice in a row for one well-formed address, with  *)
(* the cache manager in place (validation_orchestrator.py:26-27, 90-148).  *)
(* This machine follows what each check does with the cache and with the   *)
(* network; the values of the checks are those of SpecEmail.               *)
(***************************************************************************)
\* the checks of lines 92-136, in the order of the code
CheckStages == <<"validate_domain">> \o FanOut

\* The cache entry a check reads before it does anything else and writes after
\* it has an answer: validate_domain (email_dns_validator.py:78-82, 96-97) and
\* get_domain_reputation (domain_reputation.py:25-31, 38). The other checks
\* have none.
CacheKey(stage) ==
    CASE stage = "validate_domain" -> "dns_validation"
      [] stage = "get_domain_reputation" -> "domain_reputation"
      [] OTHER -> ""

\* What a check does on the network when it has no cached answer:
\* validate_domain resolves DNS records, verify_smtp (smtp_verifier.py:47, 67)
\* and catch_all_detector (catch_all_detector.py:39, 89) talk DNS and SMTP,
\* is_disposable_email (disposable_email_detector.py:23) and
\* get_domain_reputation (domain_reputation.py:34) HTTP; the role account, typo
\* and spam trap checks only look at the address.
Network(stage) ==
    CASE stage = "validate_domain" -> "DNS"
      [] stage \in {"verify_smtp", "catch_all_detector.check"} -> "SMTP"
      [] stage \in {"is_disposable_email", "get_domain_reputation"} -> "HTTP"
      [] OTHER -> ""

\* What the network can answer. A reputation lookup that fails gives the
\* neutral 50, which is not stored (domain_reputation.py:41-46).
NetworkAnswers(stage) ==
    IF stage = "get_domain_reputation"
    THEN {[value |-> 20, store |-> TRUE], [value |-> 80, store |-> TRUE],
          [value |-> 50, store |-> FALSE]}
    ELSE {[value |-> b, store |-> CacheKey(stage) # ""] : b \in BOOLEAN}

LocalStages == {n \in Range(CheckStages) : Network(n) = ""}

InitTwice ==
    /\ tc_call = 1
    /\ tc_stage = 0
    /\ tc_local \in [LocalStages -> BOOLEAN]
    /\ tc_cache = <<>>
    /\ tc_network = <<>>
    /\ tc_checks = <<EmptyDict, EmptyDict>>
    /\ OthersIdle("twice")

put(d, k, v) == [x \in DOMAIN d \cup {k} |-> IF x = k THEN v ELSE d[x]]

TwiceStage == CheckStages[tc_stage + 1]

\* the check stored its value; line 95: a domain without mail server ends the call
TwiceStored(stage, value) ==
    /\ tc_checks' = [tc_checks EXCEPT ![tc_call] = put(@, stage, value)]
    /\ tc_stage' = IF stage = "validate_domain" /\ ~value THEN Len(CheckStages)
                   ELSE tc_stage + 1

\* a check finds its answer in the cache and goes nowhere else
check_from_cache ==
    /\ tc_call \in {1, 2}
    /\ tc_stage < Len(CheckStages)
    /\ CacheKey(TwiceStage) \in DOMAIN tc_cache
    /\ TwiceStored(TwiceStage, tc_cache[CacheKey(TwiceStage)])
    /\ UNCHANGED <<tc_call, tc_local, tc_cache, tc_network>>
    /\ OthersUnchanged("twice")

\* a check without a cached answer goes to the network
check_over_network ==
    /\ tc_call \in {1, 2}
    /\ tc_stage < Len(CheckStages)
    /\ Network(TwiceStage) # ""
    /\ CacheKey(TwiceStage) \notin DOMAIN tc_cache
    /\ tc_network' = Append(tc_network,
                            [call |-> tc_call, check |-> TwiceStage, kind |-> Network(TwiceStage)])
    /\ \E answer \in NetworkAnswers(TwiceStage) :
          /\ TwiceStored(TwiceStage, answer.value)
          /\ tc_cache' = IF answer.store
                         THEN put(tc_cache, CacheKey(TwiceStage), answer.value)
                         ELSE tc_cache
    /\ UNCHANGED <<tc_call, tc_local>>
    /\ OthersUnchanged("twice")

\* a check that only looks at the address
check_locally ==
    /\ tc_call \in {1, 2}
    /\ tc_stage < Len(CheckStages)
    /\ TwiceStage \in LocalStages
    /\ TwiceStored(TwiceStage, tc_local[TwiceStage])
    /\ UNCHANGED <<tc_call, tc_local, tc_cache, tc_network>>
    /\ OthersUnchanged("twice")

\* validate_email returns; the caller calls it again at once, one time
validate_email_returns ==
    /\ tc_call \in {1, 2}
    /\ tc_stage = Len(CheckStages)
    /\ tc_call' = tc_call + 1
    /\ tc_stage' = 0
    /\ UNCHANGED <<tc_local, tc_cache, tc_network, tc_checks>>
    /\ OthersUnchanged("twice")

NextTwice ==
    \/ check_from_cache
    \/ check_over_network
    \/ check_locally
    \/ validate_email_returns

SpecTwice == InitTwice /\ [][NextTwice]_vars

\* C19: calling validate_email(e) twice in immediate succession with caching
\* enabled gives identical checks (and so an identical score), and the second
\* call issues no network call (DNS, SMTP or HTTP).
C19_SecondCallServedFromCache ==
    tc_call = 3 =>
        /\ tc_checks[1] = tc_checks[2]
        /\ \A i \in 1..Len(tc_network) : tc_network[i].call = 1

(***************************************************************************)
(* DNSResolver (dns_resolver.py:17-155) with a cache manager               *)
(* (sqlite_cache.py:40-93), looking up one domain                          *)
(***************************************************************************)
expire == 3600                 \* expire=3600 at dns_resolver.py:79, 111, 149

\* sqlite_cache.py:40-45: DELETE FROM cache WHERE expiry < now
cleanup_expired(cache, now) ==
    [k \in {x \in DOMAIN cache : ~(cache[x].expiry < now)} |-> cache[k]]

\* sqlite_cache.py:47-68: INSERT OR REPLACE with expiry = now + expire
set_cache(cache, key, value, now) == put(cache, key, [value |-> value, expiry |-> now + expire])

\* sqlite_cache.py:81-91: the keys get_cache finds after its clean-up
cached_keys(cache, now) ==
    {k \in DOMAIN cleanup_expired(cache, now) : cache[k].expiry >= now}

InitResolver ==
    /\ dr_now = 0
    /\ dr_env \in DnsEnvs
    /\ dr_cache = <<>>
    /\ dr_log = <<>>
    /\ OthersIdle("resolver")

\* One lookup. get_cache comes first (lines 39-43, 91-95, 126-130); a cached
\* value is handed back. Otherwise the resolver is queried; the answer is
\* stored when the code stores it.
\*   outcome.kind: "value" (a non-empty result), "empty" (no such record) or
\*   "error" (timeout or another resolver failure)
DnsLookup(method, outcome, stored) ==
    /\ Len(dr_log) < MaxLookups
    /\ LET cache == cleanup_expired(dr_cache, dr_now) IN
       IF method \in cached_keys(dr_cache, dr_now)
       THEN /\ dr_cache' = cache
            /\ dr_log' = Append(dr_log, [method |-> method, at |-> dr_now,
                                         steps |-> <<"get_cache">>, result |-> "value"])
       ELSE /\ dr_cache' = IF stored THEN set_cache(cache, method, outcome.value, dr_now)
                           ELSE cache
            /\ dr_log' = Append(dr_log, [method |-> method, at |-> dr_now,
                                         steps |-> <<"get_cache", "resolve">>,
                                         result |-> outcome.kind])
    /\ UNCHANGED <<dr_now, dr_env>>
    /\ OthersUnchanged("resolver")

\* dns_resolver.py:37-87: the dict is stored whatever the three answers were; a
\* timeout or another failure raises ValidationError and stores nothing
resolve_domain ==
    \E failed \in BOOLEAN :
        DnsLookup("resolve",
                  IF failed THEN [kind |-> "error", value |-> NoValue]
                  ELSE [kind |-> "value",
                        value |-> [a_record |-> dr_env.a, aaaa_record |-> dr_env.aaaa,
                                   ns_record |-> dr_env.ns,
                                   any_record |-> (dr_env.a \/ dr_env.aaaa \/ dr_env.ns)]],
                  ~failed)

\* dns_resolver.py:89-122: a non-empty answer is stored; NXDOMAIN and NoAnswer
\* return [] and a failure raises, both without a set_cache
get_mx_records ==
    \E failed \in BOOLEAN :
        DnsLookup("mx",
                  IF failed THEN [kind |-> "error", value |-> <<>>]
                  ELSE IF dr_env.mx THEN [kind |-> "value", value |-> <<<<10, 1>>>>]
                  ELSE [kind |-> "empty", value |-> <<>>],
                  ~failed /\ dr_env.mx)

\* dns_resolver.py:124-155: a PTR name is stored; without A or PTR record, or
\* on any failure, None is returned without a set_cache
verify_ptr_record ==
    \E failed \in BOOLEAN :
        DnsLookup("ptr",
                  IF ~failed /\ dr_env.ptr THEN [kind |-> "value", value |-> "ptr"]
                  ELSE [kind |-> "empty", value |-> ""],
                  ~failed /\ dr_env.ptr)

\* time.time() moves on between two lookups: by a second, by just under or
\* by just over the time to live
time_passes ==
    /\ dr_log # <<>>
    /\ Len(dr_log) < MaxLookups
    /\ dr_now = dr_log[Len(dr_log)].at
    /\ \E d \in {1, expire - 1, expire + 1} : dr_now' = dr_now + d
    /\ UNCHANGED <<dr_env, dr_cache, dr_log>>
    /\ OthersUnchanged("resolver")

NextResolver ==
    \/ resolve_domain
    \/ get_mx_records
    \/ verify_ptr_record
    \/ time_passes

SpecResolver == InitResolver /\ [][NextResolver]_vars

\* C20: every record lookup consults the cache before any network query, and
\* a result resolved less than 3600 s earlier (an empty "no MX records" result
\* and an absent PTR included) is answered from the cache with no DNS query.
C20_ResolvedWithinTtlIsCached ==
    \A j \in 1..Len(dr_log) :
        /\ Head(dr_log[j].steps) = "get_cache"
        /\ \A i \in 1..(j - 1) :
              (/\ dr_log[i].method = dr_log[j].method
               /\ dr_log[i].steps = <<"get_cache", "resolve">>
               /\ dr_log[i].result \in {"value", "empty"}
               /\ dr_log[j].at - dr_log[i].at < 3600)
                  => dr_log[j].steps = <<"get_cache">>

(***************************************************************************)
(* POST /validate/batch: RequestValidationMiddleware.dispatch              *)
(* (middleware/request_validator.py), the request model (api/models.py)    *)
(* and the route validate_email_batch (api/routes.py:88-145)               *)
(***************************************************************************)
\* api/models.py:21 and request_validator.py:161
max_items == 100

\* The value of "emails" when it is an array: each entry is an address the
\* email_validator library accepts ("ok") or one it refuses ("bad"); at most
\* one entry is bad, at position 1 or 2.
EmailLists ==
    {[i \in 1..n |-> IF i = b THEN "bad" ELSE "ok"] :
        n \in {0, 1, 2, max_items - 1, max_items, max_items + 1}, b \in 0..2}

\* What the body of the request can be: no JSON at all (request.json() raises,
\* line 92), a non-empty JSON array, or an object whose "emails" is missing, a
\* non-empty string or an array and whose "options" is missing, a non-empty
\* object or a non-empty string.
BatchBodies ==
    {[type |-> "none"], [type |-> "list"]} \cup
    {[type |-> "dict", emails |-> e, options |-> o] :
        e \in {[type |-> "missing"], [type |-> "str"]} \cup
              {[type |-> "list", data |-> l] : l \in EmailLists},
        o \in {"missing", "dict", "str"}}

\* bool(body) of line 40
body_truthy(body) ==
    CASE body.type = "none" -> FALSE
      [] body.type = "list" -> TRUE
      [] body.type = "dict" -> body.emails.type # "missing" \/ body.options # "missing"

\* a plausible slip: the limit compared one too high
too_many_off_by_one(emails) == Len(emails) > max_items + 1

\* request_validator.py:161
too_many(emails) == Len(emails) > max_items

\* the position of the first address the library refuses, 0 if it accepts all
first_bad(emails) ==
    IF "bad" \in Range(emails)
    THEN CHOOSE i \in 1..Len(emails) :
             emails[i] = "bad" /\ \A j \in 1..(i - 1) : emails[j] # "bad"
    ELSE 0

\* request_validator.py:142-172: the message of the ValueError raised ("" if
\* none is) and the number of addresses handed to the library's validate_email
\* (line 166), which looks the domain up unless told not to
validate_batch_email_request(body) ==
    IF body.type # "dict"
    THEN [error |-> "Request body must be a JSON object", validated |-> 0]
    ELSE IF body.emails.type = "missing"
            \/ (body.emails.type = "list" /\ body.emails.data = <<>>)
    THEN [error |-> "Missing required field: emails", validated |-> 0]
    ELSE IF body.emails.type # "list"
    THEN [error |-> "Emails must be an array", validated |-> 0]
    ELSE IF too_many(body.emails.data)
    THEN [error |-> "Maximum batch size exceeded (limit: 100)", validated |-> 0]
    ELSE IF first_bad(body.emails.data) # 0
    THEN [error |-> "Invalid email format", validated |-> first_bad(body.emails.data)]
    ELSE IF body.options = "str"
    THEN [error |-> "Options must be a JSON object", validated |-> Len(body.emails.data)]
    ELSE [error |-> "", validated |-> Len(body.emails.data)]

\* api/models.py:16-26: the body makes a BatchValidationRequest
BatchValidationRequest(body) ==
    /\ body.type = "dict"
    /\ body.emails.type = "list"
    /\ Len(body.emails.data) <= max_items
    /\ "bad" \notin Range(body.emails.data)
    /\ body.options # "str"

\* routes.py:117-122
route_summary(results) ==
    LET valid_count ==
            Cardinality({i \in 1..Len(results) : get(results[i], "valid", FALSE)})
    IN [total |-> Len(results), valid |-> valid_count,
        invalid |-> Len(results) - valid_count]

InitRequest ==
    /\ rq_pc = "dispatch"
    /\ rq_body \in BatchBodies
    /\ rq_content_type \in {"application/json", "text/plain"}
    /\ rq_calls = <<>>
    /\ rq_response = NoValue
    /\ OthersIdle("request")

RequestEnds(status_code, content) ==
    /\ rq_response' = [status_code |-> status_code, content |-> content]
    /\ rq_pc' = "done"

\* request_validator.py:23-78: the body is validated when it is truthy, then
\* the headers (lines 184-189); a ValueError becomes a 400 response, else the
\* request is handed on
dispatch ==
    /\ rq_pc = "dispatch"
    /\ LET checked == IF body_truthy(rq_body)
                      THEN validate_batch_email_request(rq_body)
                      ELSE [error |-> "", validated |-> 0]
           error == IF checked.error # "" THEN checked.error
                    ELSE IF rq_content_type # "application/json"
                    THEN "Invalid Content-Type. Expected: application/json"
                    ELSE ""
       IN /\ rq_calls' = rq_calls \o
                [i \in 1..checked.validated |-> "email_validator.validate_email"]
          /\ IF error # ""
             THEN RequestEnds(400, error)
             ELSE rq_pc' = "route" /\ UNCHANGED rq_response
    /\ UNCHANGED <<rq_body, rq_content_type>>
    /\ OthersUnchanged("request")

\* routes.py:88-145 behind the request model of its signature: a body that
\* makes no BatchValidationRequest is answered 422 before the function runs;
\* the function verifies the key, consults the rate gate, calls
\* validate_emails_batch and summarises what it handed back. Iterating over
\* the dict handed back for no addresses raises AttributeError (line 117),
\* answered 500 (lines 140-145).
validate_email_batch ==
    /\ rq_pc = "route"
    /\ \E user \in BOOLEAN, allowed \in BOOLEAN :
          IF ~BatchValidationRequest(rq_body)
          THEN RequestEnds(422, "Unprocessable Entity") /\ UNCHANGED rq_calls
          ELSE IF ~user
          THEN /\ RequestEnds(401, "Invalid API key")
               /\ rq_calls' = rq_calls \o <<"verify_api_key">>
          ELSE IF ~allowed
          THEN /\ RequestEnds(429, "Rate limit exceeded")
               /\ rq_calls' = rq_calls \o <<"verify_api_key", "check_rate_limit">>
          ELSE LET results == orchestrator_batch_value(rq_body.emails.data) IN
               /\ rq_calls' = rq_calls \o
                     <<"verify_api_key", "check_rate_limit", "validate_emails_batch">>
               /\ IF rq_body.emails.data = <<>>
                  THEN RequestEnds(500, "Batch validation failed")
                  ELSE RequestEnds(200, [results |-> results,
                                         summary |-> route_summary(results)])
    /\ UNCHANGED <<rq_body, rq_content_type>>
    /\ OthersUnchanged("request")

NextRequest ==
    \/ dispatch
    \/ validate_email_batch

SpecRequest == InitRequest /\ [][NextRequest]_vars

(***************************************************************************)
(* Claims about the batch request                                          *)
(***************************************************************************)
\* the request carries an array of addresses that is empty or too long
EmptyOrOversize ==
    /\ rq_body.type = "dict"
    /\ rq_body.emails.type = "list"
    /\ Len(rq_body.emails.data) = 0 \/ Len(rq_body.emails.data) > max_items

\* C21: a batch request with more than 100 addresses, or with none, is
\* rejected before any per-address validation starts: it is answered with an
\* error status, and no address was handed to a validator, no batch
\* validation was called and no lookup was made for it.
C21_BadBatchRejectedBeforeWork ==
    EmptyOrOversize =>
        /\ rq_calls = <<>>
        /\ rq_pc = "done" => rq_response.status_code \in {400, 422}
        /\ rq_pc # "route"

\* C21 witness: 101 addresses, all well-formed, sent as JSON: answered 400
\* with the size message and nothing called.
C21_Witness ==
    /\ rq_pc = "done"
    /\ rq_body.type = "dict"
    /\ rq_body.emails.type = "list"
    /\ Len(rq_body.emails.data) = max_items + 1
    /\ first_bad(rq_body.emails.data) = 0
    /\ rq_content_type = "application/json"
    /\ rq_response.status_code = 400
    /\ rq_response.content = "Maximum batch size exceeded (limit: 100)"
    /\ rq_calls = <<>>

(***************************************************************************)
(* POST /validate/email: the route validate_single_email                   *)
(* (api/routes.py:35-76) over validate_email and the per-domain limiter of *)
(* EmailDNSValidator (email_dns_validator.py:30-51, 72-106)                *)
(***************************************************************************)
MaxRequests == 11   \* most requests sent to the route

\* email_dns_validator.py:30: the defaults of limit and window
dns_limit == 10
dns_window == 60

\* email_dns_validator.py:41-51: _check_rate_limit(domain) at time now, as
\* the answer and the tracker it leaves
dns_check_rate_limit(last_check, domain, now) ==
    IF domain \in DOMAIN last_check
    THEN LET checks == SelectSeq(last_check[domain], LAMBDA t : now - t < dns_window)
         IN IF Len(checks) >= dns_limit
            THEN [exceeded |-> TRUE, last_check |-> last_check]
            ELSE [exceeded |-> FALSE,
                  last_check |-> put(last_check, domain, Append(checks, now))]
    ELSE [exceeded |-> FALSE, last_check |-> put(last_check, domain, <<now>>)]

InitGate ==
    /\ g_n = 0
    /\ g_now = 0
    /\ g_last_check = EmptyDict
    /\ g_calls = <<>>
    /\ g_outcome = "none"
    /\ OthersIdle("gate")

\* routes.py:41-76 for one request, the nth, arriving elapsed seconds after
\* the one before it. The key is verified (401), the rate gate consulted
\* (429), then validate_email runs: the call of line 58 is taken to run the
\* coroutine to its end, as the awaited call of line 111 does. Inside,
\* validation_orchestrator.py:73-105: the domain is taken, the syntax checked,
\* and validate_domain consults the limiter of the one dns_validator all
\* requests share (line 27); its RateLimitExceeded leaves validate_domain as a
\* ValidationError (email_dns_validator.py:104-106) and ends the validation
\* with the error of validation_orchestrator.py:102-105.
validate_single_email ==
    /\ g_n < MaxRequests
    /\ g_n' = g_n + 1
    /\ \E elapsed \in {1, dns_window}, user \in BOOLEAN, allowed \in BOOLEAN,
          syntax \in BOOLEAN :
          LET now == g_now + elapsed
              checked == dns_check_rate_limit(g_last_check, "example.com", now)
          IN /\ g_now' = now
             /\ IF ~user
                THEN /\ g_calls' = <<"verify_api_key">>
                     /\ g_outcome' = "401 Invalid API key"
                     /\ UNCHANGED g_last_check
                ELSE IF ~allowed
                THEN /\ g_calls' = <<"verify_api_key", "check_rate_limit">>
                     /\ g_outcome' = "429 Rate limit exceeded"
                     /\ UNCHANGED g_last_check
                ELSE IF ~syntax
                THEN /\ g_calls' = <<"verify_api_key", "check_rate_limit", "validate_email",
                                     "validate_syntax">>
                     /\ g_outcome' = "Invalid email syntax"
                     /\ UNCHANGED g_last_check
                ELSE /\ g_calls' = <<"verify_api_key", "check_rate_limit", "validate_email",
                                     "validate_syntax", "validate_domain">>
                     /\ g_last_check' = checked.last_check
                     /\ g_outcome' =
                           IF checked.exceeded
                           THEN "DNS validation error: Domain validation failed: Rate limit exceeded for domain"
                           ELSE "validated"
    /\ OthersUnchanged("gate")

NextGate == validate_single_email

SpecGate == InitGate /\ [][NextGate]_vars

(***************************************************************************)
(* Claims about the rate gate of a request                                 *)
(***************************************************************************)
GateConsults == {i \in 1..Len(g_calls) : g_calls[i] = "check_rate_limit"}

\* C22: the rate gate is consulted exactly once per request, before
\* validation starts; when it denies, no validation work is started; when it
\* allows, no rate-limit check inside the pipeline rejects the request later.
C22_GateConsultedOnceAtIngress ==
    /\ "check_rate_limit" \in Range(g_calls) =>
          /\ Cardinality(GateConsults) = 1
          /\ \A i \in 1..Len(g_calls) :
                g_calls[i] = "validate_email" => \E j \in GateConsults : j < i
    /\ g_outcome = "429 Rate limit exceeded" => "validate_email" \notin Range(g_calls)
    /\ "validate_email" \in Range(g_calls) =>
          /\ "check_rate_limit" \in Range(g_calls)
          /\ g_outcome \in {"validated", "Invalid email syntax"}

(***************************************************************************)
(* RateLimitMiddleware.dispatch over RateLimiter.check_rate_limit and      *)
(* RateLimiter.increment (middleware/rate_limiter.py:89-246): several      *)
(* requests of one key, all inside one second                              *)
(***************************************************************************)
MaxClients == 3     \* most requests of the key that are in progress together

Clients == 1..MaxClients

Windows == {"second", "minute", "hour"}

\* rate_limiter.py:29-58, the tiers dispatch uses (lines 199 and 204)
RATE_LIMIT_TIERS ==
    [free |-> [second |-> 2, minute |-> 30, hour |-> 500],
     basic |-> [second |-> 5, minute |-> 100, hour |-> 2000]]

\* rate_limiter.py:103-142: allowed unless the count read for a window has
\* reached the limit of the window
check_rate_limit(counts, tier) ==
    \A w \in Windows : ~(counts[w] >= RATE_LIMIT_TIERS[tier][w])

InitRateLimit ==
    /\ rl_tier \in {"free", "basic"}
    /\ rl_pc = [c \in Clients |-> "new"]
    /\ rl_counts = [w \in Windows |-> 0]
    /\ rl_outcome = [c \in Clients |-> "none"]
    /\ OthersIdle("rate_limit")

\* rate_limiter.py:194-220: up to the await of line 224. The limiter is
\* consulted; a denial raises RateLimitError (429), else the request is
\* handed on.
dispatch_check(c) ==
    /\ rl_pc[c] = "new"
    /\ IF check_rate_limit(rl_counts, rl_tier)
       THEN /\ rl_pc' = [rl_pc EXCEPT ![c] = "call_next"]
            /\ UNCHANGED rl_outcome
       ELSE /\ rl_pc' = [rl_pc EXCEPT ![c] = "done"]
            /\ rl_outcome' = [rl_outcome EXCEPT ![c] = "429"]
    /\ UNCHANGED <<rl_tier, rl_counts>>
    /\ OthersUnchanged("rate_limit")

\* rate_limiter.py:224-246: call_next has ended. With a response the counters
\* of the three windows are incremented (lines 160-172) and the response is
\* returned; an exception of call_next becomes a 500 and nothing is counted.
dispatch_increment(c) ==
    /\ rl_pc[c] = "call_next"
    /\ rl_pc' = [rl_pc EXCEPT ![c] = "done"]
    /\ \E responded \in BOOLEAN :
          IF responded
          THEN /\ rl_counts' = [w \in Windows |-> rl_counts[w] + 1]
               /\ rl_outcome' = [rl_outcome EXCEPT ![c] = "response"]
          ELSE /\ rl_outcome' = [rl_outcome EXCEPT ![c] = "500"]
               /\ UNCHANGED rl_counts
    /\ UNCHANGED rl_tier
    /\ OthersUnchanged("rate_limit")

NextRateLimit ==
    \/ \E c \in Clients : dispatch_check(c)
    \/ \E c \in Clients : dispatch_increment(c)

SpecRateLimit == InitRateLimit /\ [][NextRateLimit]_vars

(***************************************************************************)
(* Claims about the rate limit middleware                                  *)
(***************************************************************************)
\* the requests the limiter has let through
Admitted == {c \in Clients : rl_pc[c] = "call_next" \/ rl_outcome[c] \in {"response", "500"}}

\* C23: for every key and tier, the number of requests admitted within one
\* window never exceeds the tier's limit for that window, also when several
\* requests of the key are in progress at the same time.
C23_AdmittedWithinLimit ==
    \A w \in Windows : Cardinality(Admitted) <= RATE_LIMIT_TIERS[rl_tier][w]

(***************************************************************************)
(* SQLiteRateLimiter (middleware/sqlite_rate_limiter.py): the requests of  *)
(* one key against one window, each checked and, when allowed, counted     *)
(***************************************************************************)
MaxSends == 4       \* most requests the key sends

\* the row of the key in rate_limits, or no row
NoRow == [present |-> FALSE, count |-> 0, window_start |-> 0]

\* sqlite_rate_limiter.py:62: DELETE ... WHERE window_start < current_time - window
delete_old(row, current_time, window) ==
    IF row.present /\ row.window_start < current_time - window THEN NoRow ELSE row

\* sqlite_rate_limiter.py:100-106: insert the row, or add to its count and
\* move its window_start to the current time
upsert(row, amount, current_time) ==
    IF row.present
    THEN [present |-> TRUE, count |-> row.count + amount, window_start |-> current_time]
    ELSE [present |-> TRUE, count |-> amount, window_start |-> current_time]

InitWindow ==
    /\ sw_pc = "check"
    /\ sw_window \in {2, 3}
    /\ sw_max_requests \in {1, 2}
    /\ sw_now = 0
    /\ sw_row = NoRow
    /\ sw_log = <<>>
    /\ OthersIdle("window")

\* sqlite_rate_limiter.py:56-80: check_rate_limit(key, max_requests, window)
\* for a request that arrives elapsed seconds after the one before it
sqlite_check_rate_limit ==
    /\ sw_pc = "check"
    /\ Len(sw_log) < MaxSends
    /\ \E elapsed \in 0..(sw_window + 1) :
          LET current_time == sw_now + elapsed
              row == delete_old(sw_row, current_time, sw_window)
              current_count == IF row.present THEN row.count ELSE 0
              remaining == sw_max_requests - current_count
              is_allowed == remaining > 0
          IN /\ sw_now' = current_time
             /\ sw_row' = row
             /\ sw_log' = Append(sw_log, [at |-> current_time, count |-> current_count,
                                          allowed |-> is_allowed])
             /\ sw_pc' = IF is_allowed THEN "increment" ELSE "check"
    /\ UNCHANGED <<sw_window, sw_max_requests>>
    /\ OthersUnchanged("window")

\* sqlite_rate_limiter.py:95-114: increment(key, window) for the request that
\* was allowed
sqlite_increment ==
    /\ sw_pc = "increment"
    /\ sw_row' = upsert(sw_row, 1, sw_now)
    /\ sw_pc' = "check"
    /\ UNCHANGED <<sw_window, sw_max_requests, sw_now, sw_log>>
    /\ OthersUnchanged("window")

NextWindow ==
    \/ sqlite_check_rate_limit
    \/ sqlite_increment

SpecWindow == InitWindow /\ [][NextWindow]_vars

(***************************************************************************)
(* Claims about the rate window                                            *)
(***************************************************************************)
\* the requests sent in the window seconds that start with request i
SentFrom(i) ==
    {j \in 1..Len(sw_log) :
        sw_log[i].at <= sw_log[j].at /\ sw_log[j].at < sw_log[i].at + sw_window}

\* the key sent at most the limit in every stretch of window seconds, hence
\* in every window however its boundaries are laid
WithinLimitEverywhere ==
    \A i \in 1..Len(sw_log) : Cardinality(SentFrom(i)) <= sw_max_requests

\* C24: the count of a (key, window) grows only within a window and starts
\* again from zero when a window boundary is crossed, so a key that sends at
\* most the limit in every window is never denied.
C24_WithinLimitNeverDenied ==
    WithinLimitEverywhere => \A i \in 1..Len(sw_log) : sw_log[i].allowed

(***************************************************************************)
(* generate_batch_summary (batch_processing.py:37-52)                      *)
(***************************************************************************)
MaxResults == 3     \* longest list of results summarised

\* The entries a results list holds: what validate_email returns for a valid
\* and for an invalid address, the record process_email_batch puts in for a
\* validation that raised (lines 25-30), and a record without is_valid.
ResultRecords ==
    {[email |-> "e1", is_valid |-> TRUE, error |-> ErrorNone],
     [email |-> "e1", is_valid |-> FALSE, error |-> <<"Invalid email syntax">>],
     [email |-> "e1", is_valid |-> FALSE, status |-> "Error", error |-> <<"AttributeError">>],
     [email |-> "e1", error |-> <<"Validation error">>]}

\* a plausible slip: the key the route reads (routes.py:117)
counts_as_valid_by_valid_key(r) == get(r, "valid", FALSE)

\* batch_processing.py:49-50: r.get("is_valid", False)
counts_as_valid(r) == get(r, "is_valid", FALSE)

\* batch_processing.py:47-52; sum(1 for r in results if ...) counts positions
generate_batch_summary(results) ==
    LET is_error(r) == "status" \in DOMAIN r /\ r.status = "Error"
        positions == 1..Len(results)
    IN [total |-> Len(results),
        valid |-> Cardinality({i \in positions : counts_as_valid(results[i])}),
        invalid |-> Cardinality({i \in positions : ~counts_as_valid(results[i])}),
        errors |-> Cardinality({i \in positions : is_error(results[i])})]

InitSummary ==
    /\ sm_results \in UNION {[1..n -> ResultRecords] : n \in 0..MaxResults}
    /\ sm_summary = NoValue
    /\ OthersIdle("summary")

generate_batch_summary_call ==
    /\ sm_summary = NoValue
    /\ sm_summary' = generate_batch_summary(sm_results)
    /\ UNCHANGED sm_results
    /\ OthersUnchanged("summary")

NextSummary == generate_batch_summary_call

SpecSummary == InitSummary /\ [][NextSummary]_vars

(***************************************************************************)
(* Claims about the batch summary                                          *)
(***************************************************************************)
\* the positions of the results whose is_valid is true
ValidResults ==
    {i \in 1..Len(sm_results) :
        "is_valid" \in DOMAIN sm_results[i] /\ sm_results[i].is_valid}

ErrorResults ==
    {i \in 1..Len(sm_results) :
        "status" \in DOMAIN sm_results[i] /\ sm_results[i].status = "Error"}

MaxProbes == 4      \* most probe responses handed to _calculate_confidence

\* the codes an RCPT probe is answered with (catch_all_detector.py:46-54)
ProbeCodes == {250, 450, 550}

\* how many responses carry the code
CodeCount(responses, code) ==
    Cardinality({i \in 1..Len(responses) : responses[i].code = code})

\* a plausible slip: the share of the least frequent code
dominant_count_least(responses) ==
    CHOOSE n \in 1..Len(responses) :
        /\ \E i \in 1..Len(responses) : CodeCount(responses, responses[i].code) = n
        /\ \A i \in 1..Len(responses) : CodeCount(responses, responses[i].code) >= n

\* the number of responses that carry the most frequent code
dominant_count(responses) ==
    CHOOSE n \in 1..Len(responses) :
        /\ \E i \in 1..Len(responses) : CodeCount(responses, responses[i].code) = n
        /\ \A i \in 1..Len(responses) : CodeCount(responses, responses[i].code) <= n

calculate_confidence(responses) ==
    IF responses = <<>>
    THEN [num |-> 0, den |-> 1]
    ELSE [num |-> dominant_count(responses), den |-> Len(responses)]

InitConfidence ==
    /\ cf_responses \in UNION {[1..n -> [code : ProbeCodes]] : n \in 0..MaxProbes}
    /\ cf_confidence = NoValue
    /\ OthersIdle("confidence")

calculate_confidence_call ==
    /\ cf_confidence = NoValue
    /\ cf_confidence' = calculate_confidence(cf_responses)
    /\ UNCHANGED cf_responses
    /\ OthersUnchanged("confidence")

NextConfidence == calculate_confidence_call

SpecConfidence == InitConfidence /\ [][NextConfidence]_vars

(***************************************************************************)
(* Claims about the confidence                                             *)
(***************************************************************************)
CodesSeen == {cf_responses[i].code : i \in 1..Len(cf_responses)}

\* C26: _calculate_confidence returns 1.0 when all probe responses have the
\* same code, 0.0 for an empty response list, and for mixed responses a value
\* strictly between 0 and 1 that is the share of the dominant response code:
\* at least the share of every code and equal to the share of one of them.
C26_ConfidenceOfResponses ==
    cf_confidence # NoValue =>
        /\ Cardinality(CodesSeen) = 0 => cf_confidence.num = 0
        /\ Cardinality(CodesSeen) = 1 => cf_confidence.num = cf_confidence.den
        /\ Cardinality(CodesSeen) > 1 =>
              /\ 0 < cf_confidence.num
              /\ cf_confidence.num < cf_confidence.den
              /\ \A c \in CodesSeen :
                    cf_confidence.num * Len(cf_responses)
                        >= CodeCount(cf_responses, c) * cf_confidence.den
              /\ \E c \in CodesSeen :
                    cf_confidence.num * Len(cf_responses)
                        = CodeCount(cf_responses, c) * cf_confidence.den

\* C26 witness: the responses 250, 550, 250 of the test, confidence 2/3.
C26_Witness ==
    /\ cf_responses = <<[code |-> 250], [code |-> 550], [code |-> 250]>>
    /\ cf_confidence = [num |-> 2, den |-> 3]

(***************************************************************************)
(* RateLimiter.is_allowed (utils/rate_limiter.py:10-46), called for one    *)
(* user from several threads                                               *)
(***************************************************************************)
MaxThreads == 2     \* threads that call is_allowed
MaxCalls == 4       \* most calls of is_allowed
MaxTime == 3        \* the clock runs from 0 to MaxTime

Threads == 1..MaxThreads

\* rate_limiter.py:39-40: pop the head of the list while it is outdated
RECURSIVE remove_outdated(_, _)
remove_outdated(request_times, oldest) ==
    IF request_times # <<>> /\ Head(request_times) <= oldest
    THEN remove_outdated(Tail(request_times), oldest)
    ELSE request_times

InitLimiter ==
    /\ ra_window \in {1, 2}
    /\ ra_max_requests \in {1, 2}
    /\ ra_now = 0
    /\ ra_current_time = [th \in Threads |-> -1]
    /\ ra_requests = <<>>
    /\ ra_allowed = <<>>
    /\ ra_calls = 0
    /\ OthersIdle("limiter")

\* rate_limiter.py:34: a thread enters is_allowed and reads the clock, before
\* it asks for the lock
is_allowed_reads_time(th) ==
    /\ ra_current_time[th] = -1
    /\ ra_calls < MaxCalls
    /\ ra_calls' = ra_calls + 1
    /\ ra_current_time' = [ra_current_time EXCEPT ![th] = ra_now]
    /\ UNCHANGED <<ra_window, ra_max_requests, ra_now, ra_requests, ra_allowed>>
    /\ OthersUnchanged("limiter")

\* rate_limiter.py:35-46: the thread holds the lock from the with statement
\* to the return
is_allowed_locked(th) ==
    /\ ra_current_time[th] # -1
    /\ LET current_time == ra_current_time[th]
           request_times == remove_outdated(ra_requests, current_time - ra_window)
       IN IF Len(request_times) < ra_max_requests
          THEN /\ ra_requests' = Append(request_times, current_time)
               /\ ra_allowed' = Append(ra_allowed, current_time)
          ELSE /\ ra_requests' = request_times
               /\ UNCHANGED ra_allowed
    /\ ra_current_time' = [ra_current_time EXCEPT ![th] = -1]
    /\ UNCHANGED <<ra_window, ra_max_requests, ra_now, ra_calls>>
    /\ OthersUnchanged("limiter")

\* time.time() moves on
clock_advances ==
    /\ ra_now < MaxTime
    /\ ra_now' = ra_now + 1
    /\ UNCHANGED <<ra_window, ra_max_requests, ra_current_time, ra_requests, ra_allowed,
                   ra_calls>>
    /\ OthersUnchanged("limiter")

NextLimiter ==
    \/ \E th \in Threads : is_allowed_reads_time(th)
    \/ \E th \in Threads : is_allowed_locked(th)
    \/ clock_advances

SpecLimiter == InitLimiter /\ [][NextLimiter]_vars

(***************************************************************************)
(* Claims about the sliding window limiter                                 *)
(***************************************************************************)
\* the allowed requests with a time in (t - window, t]
AllowedWithin(t) ==
    {i \in 1..Len(ra_allowed) : t - ra_window < ra_allowed[i] /\ ra_allowed[i] <= t}

\* C29: for every user and every instant t, the number of requests that
\* is_allowed allowed with a time in (t - window_seconds, t] is at most
\* max_requests, also when is_allowed is called from several threads at
\* once; a denied request is not counted.
C29_SlidingWindowHoldsLimit ==
    /\ \A t \in 0..MaxTime : Cardinality(AllowedWithin(t)) <= ra_max_requests
    /\ Range(ra_requests) \subseteq Range(ra_allowed)
    /\ Len(ra_requests) <= Len(ra_allowed)

(***************************************************************************)
(* SQLiteCacheManager (sqlite_cache.py:14-110): set_cache, get_cache and   *)
(* delete_cache on one table, time counted in whole seconds as             *)
(* int(time.time()) counts it                                              *)
(***************************************************************************)
MaxCacheOps == 4    \* most cache operations in a run

CacheKeys == {"k1", "k2"}

\* The values handed to set_cache: a dict of JSON values (dns_resolver.py:79,
\* domain_reputation.py:38), a list of (priority, server) tuples
\* (dns_resolver.py:101-111) and a value json.dumps refuses (a set).
PyDict == [type |-> "dict", of |-> "bool"]
PyTupleList == [type |-> "list", of |-> "tuple"]
PySet == [type |-> "set", of |-> "str"]
PyNone == [type |-> "None", of |-> "none"]

CacheValues == {PyDict, PyTupleList, PySet}

\* json.dumps(value): an object for a dict, an array for a list or a tuple, at
\* every level; TypeError for a set
serializable(value) == value.type \in {"dict", "list", "tuple"}

json_dumps(value) ==
    [json |-> IF value.type = "dict" THEN "object" ELSE "array",
     of |-> IF value.of \in {"list", "tuple"} THEN "array" ELSE value.of]

\* json.loads(text): a dict for an object, a list for an array, at every level
json_loads(text) ==
    [type |-> IF text.json = "object" THEN "dict" ELSE "list",
     of |-> IF text.of = "array" THEN "list" ELSE text.of]

\* sqlite_cache.py:58-70: the table set_cache leaves; unchanged when
\* json.dumps raises (the function then returns False)
sqlite_set_cache(table, key, value, expire_in, now) ==
    IF serializable(value)
    THEN put(table, key, [value |-> json_dumps(value), expiry |-> now + expire_in])
    ELSE table

\* sqlite_cache.py:81-93: what get_cache returns
sqlite_get_cache(table, key, now) ==
    LET cleaned == cleanup_expired(table, now)
    IN IF key \in DOMAIN cleaned /\ cleaned[key].expiry >= now
       THEN json_loads(cleaned[key].value)
       ELSE PyNone

\* sqlite_cache.py:104-108: DELETE FROM cache WHERE key = ?
sqlite_delete_cache(table, key) == [k \in DOMAIN table \ {key} |-> table[k]]

NeverSet == [set |-> FALSE, value |-> PyNone, at |-> 0, expire |-> 0]

InitCache ==
    /\ ch_n = 0
    /\ ch_now = 0
    /\ ch_table = <<>>
    /\ ch_last = [k \in CacheKeys |-> NeverSet]
    /\ ch_got = NoValue
    /\ OthersIdle("cache")

\* set_cache(key, value, expire), elapsed seconds after the operation before
set_cache_call ==
    /\ ch_n < MaxCacheOps
    /\ ch_n' = ch_n + 1
    /\ \E key \in CacheKeys, value \in CacheValues, expire_in \in {1, 2}, elapsed \in 0..2 :
          LET now == ch_now + elapsed IN
          /\ ch_now' = now
          /\ ch_table' = sqlite_set_cache(ch_table, key, value, expire_in, now)
          /\ ch_last' = IF serializable(value)
                        THEN [ch_last EXCEPT ![key] = [set |-> TRUE, value |-> value,
                                                       at |-> now, expire |-> expire_in]]
                        ELSE ch_last
    /\ ch_got' = NoValue
    /\ OthersUnchanged("cache")

\* get_cache(key): the expired rows are deleted (lines 40-45), then the row of
\* the key is read
get_cache_call ==
    /\ ch_n < MaxCacheOps
    /\ ch_n' = ch_n + 1
    /\ \E key \in CacheKeys, elapsed \in 0..3 :
          LET now == ch_now + elapsed IN
          /\ ch_now' = now
          /\ ch_table' = cleanup_expired(ch_table, now)
          /\ ch_got' = [key |-> key, result |-> sqlite_get_cache(ch_table, key, now)]
    /\ UNCHANGED ch_last
    /\ OthersUnchanged("cache")

\* delete_cache(key)
delete_cache_call ==
    /\ ch_n < MaxCacheOps
    /\ ch_n' = ch_n + 1
    /\ \E key \in CacheKeys, elapsed \in 0..2 :
          /\ ch_now' = ch_now + elapsed
          /\ ch_table' = sqlite_delete_cache(ch_table, key)
          /\ ch_last' = [ch_last EXCEPT ![key] = NeverSet]
    /\ ch_got' = NoValue
    /\ OthersUnchanged("cache")

NextCache ==
    \/ set_cache_call
    \/ get_cache_call
    \/ delete_cache_call

SpecCache == InitCache /\ [][NextCache]_vars

(***************************************************************************)
(* Claims about the SQLite cache                                           *)
(***************************************************************************)
\* the most recent set_cache of the key that stored, if no delete_cache of
\* the key followed it and it happened at most expire seconds ago
LiveSet(key) ==
    /\ ch_last[key].set
    /\ ch_now - ch_last[key].at <= ch_last[key].expire

\* C30: get_cache(k) returns the value of the most recent set_cache(k, v,
\* expire) if that set happened at most expire seconds ago and no
\* delete_cache(k) followed it, and None otherwise; a value is never returned
\* after its expiry time.
C30_GetReturnsLatestLiveValue ==
    ch_got # NoValue =>
        ch_got.result = IF LiveSet(ch_got.key) THEN ch_last[ch_got.key].value ELSE PyNone

(***************************************************************************)
(* _check_smtp_server (smtp_verifier.py:91-139): one session with one MX   *)
(* host, command by command.  smtplib is modelled at the interface the     *)
(* function uses: connect, helo, starttls, mail and rcpt send one command  *)
(* and return the server's reply or raise; has_extn returns a boolean.     *)
(***************************************************************************)
\* what a call into smtplib can raise
SessionExceptions == {"socket.timeout", "SMTPException", "ConnectionRefusedError"}

\* smtp_verifier.py:138-139: the except clause of the session
session_except(e) ==
    IF e \in {"socket.timeout", "SMTPException"} THEN "SMTPVerificationError" ELSE e

\* smtp_verifier.py:116: the step after smtp.starttls(context=context)
after_starttls_to_mail == "mail"
after_starttls == "helo_again"

InitSession ==
    /\ ss_pc = "connect"
    /\ ss_mx_host \in Hosts
    /\ ss_log = <<>>
    /\ ss_supports_tls = "unset"
    /\ ss_outcome = NoValue
    /\ OthersIdle("session")

\* one call that sends a command: the command goes out, and the call returns
\* the reply (whatever its code, the function does not look at it) or raises
smtp_command(command, next) ==
    /\ \E accepted \in BOOLEAN :
          ss_log' = Append(ss_log, [command |-> command, accepted |-> accepted])
    /\ \/ /\ ss_pc' = next
          /\ UNCHANGED ss_outcome
       \/ \E e \in SessionExceptions :
             /\ ss_pc' = "done"
             /\ ss_outcome' = Raises(session_except(e))

\* smtp_verifier.py:108: smtp.connect(mx_host, 25)
check_smtp_server_connect ==
    /\ ss_pc = "connect"
    /\ smtp_command("connect", "helo")
    /\ UNCHANGED <<ss_mx_host, ss_supports_tls>>
    /\ OthersUnchanged("session")

\* smtp_verifier.py:109 and 116: smtp.helo()
check_smtp_server_helo ==
    /\ ss_pc \in {"helo", "helo_again"}
    /\ smtp_command("HELO", IF ss_pc = "helo" THEN "has_extn" ELSE "mail")
    /\ UNCHANGED <<ss_mx_host, ss_supports_tls>>
    /\ OthersUnchanged("session")

\* smtp_verifier.py:112-113: supports_tls = smtp.has_extn('starttls')
check_smtp_server_has_extn ==
    /\ ss_pc = "has_extn"
    /\ \E supports_tls \in BOOLEAN :
          /\ ss_supports_tls' = IF supports_tls THEN "True" ELSE "False"
          /\ ss_pc' = IF supports_tls THEN "starttls" ELSE "mail"
    /\ UNCHANGED <<ss_mx_host, ss_log, ss_outcome>>
    /\ OthersUnchanged("session")

\* smtp_verifier.py:114-115: smtp.starttls(context=context)
check_smtp_server_starttls ==
    /\ ss_pc = "starttls"
    /\ smtp_command("STARTTLS", after_starttls)
    /\ UNCHANGED <<ss_mx_host, ss_supports_tls>>
    /\ OthersUnchanged("session")

\* smtp_verifier.py:120: smtp.mail('')
check_smtp_server_mail ==
    /\ ss_pc = "mail"
    /\ smtp_command("MAIL FROM:<>", "rcpt")
    /\ UNCHANGED <<ss_mx_host, ss_supports_tls>>
    /\ OthersUnchanged("session")

\* smtp_verifier.py:123-136: code, message = smtp.rcpt(email) and the result
check_smtp_server_rcpt ==
    /\ ss_pc = "rcpt"
    /\ \/ \E code \in RcptCodes :
             /\ ss_log' = Append(ss_log, [command |-> "RCPT TO", accepted |-> code = 250])
             /\ ss_outcome' = Returns(check_smtp_server_result(code))
       \/ \E e \in SessionExceptions :
             /\ ss_log' = Append(ss_log, [command |-> "RCPT TO", accepted |-> FALSE])
             /\ ss_outcome' = Raises(session_except(e))
    /\ ss_pc' = "done"
    /\ UNCHANGED <<ss_mx_host, ss_supports_tls>>
    /\ OthersUnchanged("session")

NextSession ==
    \/ check_smtp_server_connect
    \/ check_smtp_server_helo
    \/ check_smtp_server_has_extn
    \/ check_smtp_server_starttls
    \/ check_smtp_server_mail
    \/ check_smtp_server_rcpt

SpecSession == InitSession /\ [][NextSession]_vars

(***************************************************************************)
(* Claims about one SMTP host session                                      *)
(***************************************************************************)
\* the commands of the session so far, in the order they were sent
Commands == [k \in 1..Len(ss_log) |-> ss_log[k].command]

\* the whole session with and without the upgrade
SessionWithTls == <<"connect", "HELO", "STARTTLS", "HELO", "MAIL FROM:<>", "RCPT TO">>
SessionWithoutTls == <<"connect", "HELO", "MAIL FROM:<>", "RCPT TO">>

IsPrefix(s, t) == Len(s) <= Len(t) /\ s = SubSeq(t, 1, Len(s))

\* C31: within one host session the commands go out in the order connect,
\* HELO, then STARTTLS and a second HELO only if the server advertises
\* STARTTLS, then MAIL FROM with an empty sender, then RCPT TO; RCPT TO never
\* precedes MAIL FROM and MAIL FROM never precedes the HELO that follows a
\* STARTTLS.
C31_SessionCommandOrder ==
    /\ IsPrefix(Commands, SessionWithTls) \/ IsPrefix(Commands, SessionWithoutTls)
    /\ (\E k \in 1..Len(Commands) : Commands[k] = "STARTTLS") => ss_supports_tls = "True"
    /\ ss_supports_tls = "True" => IsPrefix(Commands, SessionWithTls)
    /\ ss_supports_tls = "False" => IsPrefix(Commands, SessionWithoutTls)
    /\ (ss_pc = "done" /\ ss_outcome.kind = "returns") =>
          Commands = IF ss_supports_tls = "True" THEN SessionWithTls ELSE SessionWithoutTls

C31_Witness ==
    /\ ss_pc = "done"
    /\ ss_outcome.kind = "returns"
    /\ ss_supports_tls = "True"
    /\ Commands = SessionWithTls

(***************************************************************************)
(* SessionStore (middleware/session.py:13-47): the session table _store    *)
(* and the expiry table _expiry, time counted in days                      *)
(***************************************************************************)
MaxSessions == 2        \* most sessions created in a run
MaxSessionOps == 4      \* most calls on the store in a run

SESSION_EXPIRE_DAYS == 7

\* session ids: those uuid4 hands out, in order, and 0 for an id no session has
SessionIds == 0..MaxSessions

\* the dicts passed as data; the empty one stands for None as well (data or {})
SessionData == {<<>>, [theme |-> "dark"], [theme |-> "light"]}

\* dict.pop(key, None)
pop(d, key) == [k \in DOMAIN d \ {key} |-> d[k]]

\* dict.update(other)
update(d, other) ==
    [k \in DOMAIN d \cup DOMAIN other |-> IF k \in DOMAIN other THEN other[k] ELSE d[k]]

\* session.py:33: the test that finds a session expired
expired_at_expiry(now, expiry) == now >= expiry
expired(now, expiry) == now > expiry

InitStore ==
    /\ st_n = 0
    /\ st_now = 0
    /\ st_store = <<>>
    /\ st_expiry = <<>>
    /\ st_made = <<>>
    /\ st_got = NoValue
    /\ OthersIdle("store")

\* session.py:19-28
create_session ==
    /\ st_n < MaxSessionOps
    /\ Cardinality(DOMAIN st_made) < MaxSessions
    /\ \E elapsed \in {0, 1, SESSION_EXPIRE_DAYS}, data \in SessionData :
          LET now == st_now + elapsed
              session_id == Cardinality(DOMAIN st_made) + 1
              session == [user_id |-> "u", created_at |-> now, data |-> data]
          IN /\ st_now' = now
             /\ st_store' = put(st_store, session_id, session)
             /\ st_expiry' = put(st_expiry, session_id, now + SESSION_EXPIRE_DAYS)
             /\ st_made' = put(st_made, session_id, [session |-> session, deleted |-> FALSE])
    /\ st_n' = st_n + 1
    /\ st_got' = NoValue
    /\ OthersUnchanged("store")

\* session.py:30-37, with the delete_session of line 34
get_session ==
    /\ st_n < MaxSessionOps
    /\ \E elapsed \in {0, 1, SESSION_EXPIRE_DAYS}, session_id \in SessionIds :
          LET now == st_now + elapsed IN
          /\ st_now' = now
          /\ IF session_id \in DOMAIN st_store
             THEN IF expired(now, st_expiry[session_id])
                  THEN /\ st_store' = pop(st_store, session_id)
                       /\ st_expiry' = pop(st_expiry, session_id)
                       /\ st_got' = [session_id |-> session_id, result |-> PyNone]
                  ELSE /\ st_got' = [session_id |-> session_id, result |-> st_store[session_id]]
                       /\ UNCHANGED <<st_store, st_expiry>>
             ELSE /\ st_got' = [session_id |-> session_id, result |-> PyNone]
                  /\ UNCHANGED <<st_store, st_expiry>>
    /\ st_n' = st_n + 1
    /\ UNCHANGED st_made
    /\ OthersUnchanged("store")

\* session.py:39-42
update_session ==
    /\ st_n < MaxSessionOps
    /\ \E elapsed \in {0, 1}, session_id \in SessionIds, data \in SessionData :
          /\ st_now' = st_now + elapsed
          /\ IF session_id \in DOMAIN st_store
             THEN LET session == [st_store[session_id] EXCEPT
                                     !.data = update(st_store[session_id].data, data)]
                  IN /\ st_store' = put(st_store, session_id, session)
                     /\ st_made' = put(st_made, session_id,
                                       [session |-> session, deleted |-> FALSE])
             ELSE UNCHANGED <<st_store, st_made>>
    /\ st_n' = st_n + 1
    /\ st_got' = NoValue
    /\ UNCHANGED st_expiry
    /\ OthersUnchanged("store")

\* session.py:44-47
delete_session ==
    /\ st_n < MaxSessionOps
    /\ \E elapsed \in {0, 1}, session_id \in SessionIds :
          /\ st_now' = st_now + elapsed
          /\ st_store' = pop(st_store, session_id)
          /\ st_expiry' = pop(st_expiry, session_id)
          /\ st_made' = IF session_id \in DOMAIN st_made
                        THEN [st_made EXCEPT ![session_id].deleted = TRUE]
                        ELSE st_made
    /\ st_n' = st_n + 1
    /\ st_got' = NoValue
    /\ OthersUnchanged("store")

NextStore ==
    \/ create_session
    \/ get_session
    \/ update_session
    \/ delete_session

SpecStore == InitStore /\ [][NextStore]_vars

(***************************************************************************)
(* Claims about SessionStore                                               *)
(***************************************************************************)
\* the session was created, no delete_session of it was called, and the time
\* is between its creation and its expiry time
LiveSession(session_id) ==
    /\ session_id \in DOMAIN st_made
    /\ ~st_made[session_id].deleted
    /\ st_now <= st_made[session_id].session.created_at + SESSION_EXPIRE_DAYS

\* C33: get_session returns a session's data only between its creation and
\* its expiry time and only if it was not deleted; an expired session found by
\* get_session is removed from both tables, so after any sequence of create,
\* get, update and delete both tables have the same key set.
C33_SessionTablesAgree ==
    /\ DOMAIN st_store = DOMAIN st_expiry
    /\ st_got # NoValue =>
          /\ st_got.result = IF LiveSession(st_got.session_id)
                             THEN st_made[st_got.session_id].session
                             ELSE PyNone
          /\ ~LiveSession(st_got.session_id) =>
                /\ st_got.session_id \notin DOMAIN st_store
                /\ st_got.session_id \notin DOMAIN st_expiry

\* C33 witness: get_session found a session past its expiry time, one that no
\* delete_session had removed, answered None and took it out of both tables
\* while another session stays in both.
C33_Witness ==
    /\ st_got # NoValue
    /\ st_got.result = PyNone
    /\ st_got.session_id \in DOMAIN st_made
    /\ ~st_made[st_got.session_id].deleted
    /\ st_got.session_id \notin DOMAIN st_store
    /\ DOMAIN st_store # {}

(***************************************************************************)
(* DNSValidator over DNSCache (validation/dns_validator.py:15-117) and the *)
(* EmailValidator that calls it (validation/email_validator.py:18-60)      *)
(***************************************************************************)
MaxDnsCalls == 3        \* most calls on the validator in a run

DNS_CACHE_TTL == 3600   \* seconds

DnsDomains == {"d1", "d2"}
RecordTypes == {"A", "MX"}

\* the zones: which record types each domain has
Zones == [DnsDomains -> [RecordTypes -> BOOLEAN]]

\* resolver.resolve(domain, rdtype): the records of that type, written as the
\* strings str(r) and str(r.exchange) make of them, or DNSException when the
\* domain has none or the query in `failing` times out
resolve(zone, domain, rdtype, failing) ==
    IF zone[domain][rdtype] /\ rdtype \notin failing
    THEN Returns(<<[rdtype |-> rdtype, domain |-> domain]>>)
    ELSE Raises("DNSException")

\* dns_validator.py:22-29: the records DNSCache.get returns (None: PyNone)
DNSCache_get(cache, domain, now) ==
    IF domain \in DOMAIN cache /\ now - cache[domain].timestamp < DNS_CACHE_TTL
    THEN cache[domain].records
    ELSE PyNone

\* dns_validator.py:24-28: the cache DNSCache.get leaves
DNSCache_get_leaves(cache, domain, now) ==
    IF domain \in DOMAIN cache /\ ~(now - cache[domain].timestamp < DNS_CACHE_TTL)
    THEN pop(cache, domain)
    ELSE cache

\* dns_validator.py:31-33
DNSCache_set(cache, domain, records, now) ==
    put(cache, domain, [timestamp |-> now, records |-> records])

\* dns_validator.py:48-88: the cache validate_domain leaves and what it returns
DNSValidator_validate_domain(cache, zone, domain, now, failing) ==
    LET cached_records == DNSCache_get(cache, domain, now)
        looked == DNSCache_get_leaves(cache, domain, now)
        a_records == resolve(zone, domain, "A", failing)
        mx_records == resolve(zone, domain, "MX", failing)
    IN IF cached_records # PyNone
       THEN [cache |-> looked, outcome |-> Returns(cached_records # <<>>)]
       ELSE IF a_records.kind = "returns"
       THEN [cache |-> DNSCache_set(looked, domain, a_records.value, now),
             outcome |-> Returns(TRUE)]
       ELSE IF mx_records.kind = "returns"
       THEN [cache |-> DNSCache_set(looked, domain, mx_records.value, now),
             outcome |-> Returns(TRUE)]
       ELSE [cache |-> looked, outcome |-> Returns(FALSE)]

\* dns_validator.py:90-117: the cache get_mx_records leaves and what it returns
DNSValidator_get_mx_records(cache, zone, domain, now, failing) ==
    LET cached_records == DNSCache_get(cache, domain, now)
        looked == DNSCache_get_leaves(cache, domain, now)
        mx_records == resolve(zone, domain, "MX", failing)
    IN IF cached_records # PyNone
       THEN [cache |-> looked, outcome |-> Returns(cached_records)]
       ELSE IF mx_records.kind = "returns"
       THEN [cache |-> DNSCache_set(looked, domain, mx_records.value, now),
             outcome |-> Returns(mx_records.value)]
       ELSE [cache |-> looked, outcome |-> Raises("DNSValidationError")]

InitDnsValidator ==
    /\ dv_n = 0
    /\ dv_now = 0
    /\ dv_zone \in Zones
    /\ dv_cache = <<>>
    /\ dv_mx = NoValue
    /\ OthersIdle("dns_validator")

\* a call of validate_domain on its own (validation_orchestrator.py:92)
validate_domain_call ==
    /\ dv_n < MaxDnsCalls
    /\ \E domain \in DnsDomains, elapsed \in {0, DNS_CACHE_TTL}, failing \in SUBSET RecordTypes :
          /\ dv_now' = dv_now + elapsed
          /\ dv_cache' = DNSValidator_validate_domain(dv_cache, dv_zone, domain,
                                                      dv_now + elapsed, failing).cache
    /\ dv_n' = dv_n + 1
    /\ dv_mx' = NoValue
    /\ UNCHANGED dv_zone
    /\ OthersUnchanged("dns_validator")

\* a call of get_mx_records on its own
get_mx_records_call ==
    /\ dv_n < MaxDnsCalls
    /\ \E domain \in DnsDomains, elapsed \in {0, DNS_CACHE_TTL}, failing \in SUBSET RecordTypes :
          LET got == DNSValidator_get_mx_records(dv_cache, dv_zone, domain,
                                                 dv_now + elapsed, failing)
          IN /\ dv_now' = dv_now + elapsed
             /\ dv_cache' = got.cache
             /\ dv_mx' = [domain |-> domain, outcome |-> got.outcome]
    /\ dv_n' = dv_n + 1
    /\ UNCHANGED dv_zone
    /\ OthersUnchanged("dns_validator")

\* email_validator.py:42-55: EmailValidator.validate_email on an address of
\* the right format: validate_domain, then get_mx_records if the domain passed
EmailValidator_validate_email ==
    /\ dv_n < MaxDnsCalls
    /\ \E domain \in DnsDomains, elapsed \in {0, DNS_CACHE_TTL}, failing \in SUBSET RecordTypes :
          LET now == dv_now + elapsed
              validated == DNSValidator_validate_domain(dv_cache, dv_zone, domain, now, failing)
              got == DNSValidator_get_mx_records(validated.cache, dv_zone, domain, now, failing)
          IN /\ dv_now' = now
             /\ IF validated.outcome.value
                THEN /\ dv_cache' = got.cache
                     /\ dv_mx' = [domain |-> domain, outcome |-> got.outcome]
                ELSE /\ dv_cache' = validated.cache
                     /\ dv_mx' = NoValue
    /\ dv_n' = dv_n + 1
    /\ UNCHANGED dv_zone
    /\ OthersUnchanged("dns_validator")

NextDnsValidator ==
    \/ validate_domain_call
    \/ get_mx_records_call
    \/ EmailValidator_validate_email

SpecDnsValidator == InitDnsValidator /\ [][NextDnsValidator]_vars

(***************************************************************************)
(* Claims about the DNS validator's cache                                  *)
(***************************************************************************)
\* C34: DNS cache entries are keyed by (domain, record type): after any
\* sequence of validate_domain and get_mx_records calls, get_mx_records(d)
\* returns only MX exchange hosts of d and never data that validate_domain(d)
\* cached for another record type (A records).
C34_MxRecordsAreMxRecords ==
    (dv_mx # NoValue /\ dv_mx.outcome.kind = "returns") =>
        \A k \in 1..Len(dv_mx.outcome.value) :
            /\ dv_mx.outcome.value[k].rdtype = "MX"
            /\ dv_mx.outcome.value[k].domain = dv_mx.domain

(***************************************************************************)
(* SpamTrapDetector (spam_trap_detector.py:18-138): the pattern sets in    *)
(* memory and the config file they are written to                          *)
(***************************************************************************)
MaxPatternOps == 3      \* most add_pattern and remove_pattern calls in a run

Categories == {"role", "trap"}

\* pattern strings; "(" is one re.compile refuses
PatternStrings == {"^abuse@", "^spam", "("}

compiles(pattern) == pattern # "("

\* what the file system does to a call: nothing, or fail the read of the
\* config file, or fail the write
IoOutcomes == {"ok", "read_fails", "write_fails"}

NoPatterns == [category \in Categories |-> {}]
NoConfig == [category \in Categories |-> <<>>]

\* the config files a detector can be started on: none, or one with some
\* patterns of one category
ConfigFiles ==
    {[exists |-> FALSE, config |-> NoConfig], [exists |-> TRUE, config |-> NoConfig],
     [exists |-> TRUE, config |-> [NoConfig EXCEPT !["trap"] = <<"^spam">>]]}

\* spam_trap_detector.py:29-46 on a fresh detector: the set of each category's
\* list (a category the file lacks reads as the empty set of the defaultdict)
load_patterns(file) ==
    IF file.exists
    THEN [category \in Categories |->
             {file.config[category][k] : k \in 1..Len(file.config[category])}]
    ELSE NoPatterns

\* list.remove(x): the first occurrence goes
remove(list, x) ==
    LET first == CHOOSE k \in 1..Len(list) :
                     list[k] = x /\ \A j \in 1..(k - 1) : list[j] # x
    IN SubSeq(list, 1, first - 1) \o SubSeq(list, first + 1, Len(list))

contains(list, x) == \E k \in 1..Len(list) : list[k] = x

InitTrap ==
    /\ sp_n = 0
    /\ sp_file \in ConfigFiles
    /\ sp_patterns = load_patterns(sp_file)
    /\ sp_last = NoValue
    /\ OthersIdle("trap")

\* spam_trap_detector.py:75-108
add_pattern ==
    /\ sp_n < MaxPatternOps
    /\ \E category \in Categories, pattern \in PatternStrings, io \in IoOutcomes :
          LET added == [sp_patterns EXCEPT ![category] = @ \cup {pattern}]
              config == IF sp_file.exists THEN sp_file.config ELSE NoConfig
              written == [config EXCEPT ![category] = Append(@, pattern)]
              returned(value) ==
                  sp_last' = [call |-> "add_pattern", returned |-> value, before |-> sp_patterns]
          IN IF ~compiles(pattern)
             THEN \* line 87 raises
                  /\ returned(FALSE)
                  /\ UNCHANGED <<sp_patterns, sp_file>>
             ELSE IF (io = "read_fails" /\ sp_file.exists) \/ io = "write_fails"
             THEN \* line 93-94 or line 100-101 raises, after line 88
                  /\ sp_patterns' = added
                  /\ returned(FALSE)
                  /\ UNCHANGED sp_file
             ELSE /\ sp_patterns' = added
                  /\ sp_file' = [exists |-> TRUE, config |-> written]
                  /\ returned(TRUE)
    /\ sp_n' = sp_n + 1
    /\ OthersUnchanged("trap")

\* spam_trap_detector.py:110-138
remove_pattern ==
    /\ sp_n < MaxPatternOps
    /\ \E category \in Categories, pattern \in PatternStrings, io \in IoOutcomes :
          LET discarded == [sp_patterns EXCEPT ![category] = @ \ {pattern}]
              in_config == sp_file.exists /\ contains(sp_file.config[category], pattern)
              returned(value) ==
                  sp_last' = [call |-> "remove_pattern", returned |-> value, before |-> sp_patterns]
          IN /\ sp_patterns' = discarded
             /\ IF (io = "read_fails" /\ sp_file.exists) \/ (io = "write_fails" /\ in_config)
                THEN \* line 124-125 or line 130-131 raises, after line 121
                     /\ returned(FALSE)
                     /\ UNCHANGED sp_file
                ELSE /\ sp_file' = IF in_config
                                   THEN [sp_file EXCEPT !.config[category] = remove(@, pattern)]
                                   ELSE sp_file
                     /\ returned(TRUE)
    /\ sp_n' = sp_n + 1
    /\ OthersUnchanged("trap")

NextTrap ==
    \/ add_pattern
    \/ remove_pattern

SpecTrap == InitTrap /\ [][NextTrap]_vars

(***************************************************************************)
(* Claims about the spam trap patterns                                     *)
(***************************************************************************)
\* C35: after any sequence of add_pattern and remove_pattern calls (those that
\* return False included), a fresh detector that loads the config file has
\* exactly the same pattern set per category as the running detector; in
\* particular an add_pattern that returns False leaves the in-memory pattern
\* set unchanged.
C35_FileAndMemoryAgree ==
    /\ load_patterns(sp_file) = sp_patterns
    /\ (sp_last # NoValue /\ sp_last.call = "add_pattern" /\ ~sp_last.returned) =>
          sp_patterns = sp_last.before

(***************************************************************************)
(* SQLiteRateLimiter (sqlite_rate_limiter.py:41-116) on the whole table    *)
(* rate_limits: one row per (key, window)                                  *)
(***************************************************************************)
MaxTableOps == 4        \* most calls on the limiter in a run

RateKeys == {"k1", "k2"}

\* window lengths in seconds, a short and a long one
WindowLengths == {2, 5}

\* _get_window_key (line 39): the rows of the table
WindowKeys == RateKeys \X WindowLengths

\* sqlite_rate_limiter.py:57-62: the table after the DELETE of check_rate_limit,
\* which has no WHERE clause on the key
delete_old_entries(rows, current_time, window) ==
    [window_key \in WindowKeys |-> delete_old(rows[window_key], current_time, window)]

InitTable ==
    /\ tb_n = 0
    /\ tb_now = 0
    /\ tb_rows = [window_key \in WindowKeys |-> NoRow]
    /\ tb_last = NoValue
    /\ OthersIdle("table")

\* sqlite_rate_limiter.py:41-80: check_rate_limit(key, max_requests, window)
check_rate_limit_on_table ==
    /\ tb_n < MaxTableOps
    /\ \E key \in RateKeys, window \in WindowLengths, elapsed \in 0..3 :
          LET current_time == tb_now + elapsed IN
          /\ tb_now' = current_time
          /\ tb_rows' = delete_old_entries(tb_rows, current_time, window)
          /\ tb_last' = [window_key |-> <<key, window>>, before |-> tb_rows]
    /\ tb_n' = tb_n + 1
    /\ OthersUnchanged("table")

\* sqlite_rate_limiter.py:82-116: increment(key, window)
increment_on_table ==
    /\ tb_n < MaxTableOps
    /\ \E key \in RateKeys, window \in WindowLengths, elapsed \in 0..3 :
          LET current_time == tb_now + elapsed IN
          /\ tb_now' = current_time
          /\ tb_rows' = [tb_rows EXCEPT ![<<key, window>>] = upsert(@, 1, current_time)]
    /\ tb_last' = NoValue
    /\ tb_n' = tb_n + 1
    /\ OthersUnchanged("table")

NextTable ==
    \/ check_rate_limit_on_table
    \/ increment_on_table

SpecTable == InitTable /\ [][NextTable]_vars

(***************************************************************************)
(* Claims about the table of counters                                      *)
(***************************************************************************)
\* the count the table holds for a (key, window): that of its row, none
\* without a row
StoredCount(rows, window_key) ==
    IF rows[window_key].present THEN <<rows[window_key].count>> ELSE <<>>

\* C38: check_rate_limit(key, max_requests, window) changes no counter of any
\* other (key, window) pair: the stored count of every other key, and of the
\* same key in a longer window, is the same after the call as before.
C38_CheckLeavesOtherCountersAlone ==
    tb_last # NoValue =>
        \A window_key \in WindowKeys \ {tb_last.window_key} :
            StoredCount(tb_rows, window_key) = StoredCount(tb_last.before, window_key)

(***************************************************************************)
(* check_reputation on the module-level checker                            *)
(* (domain_reputation_checker.py:59-158, 278-279): the sub-checks leave    *)
(* their details in attributes of the one shared instance, and line        *)
(* 115-121 reads them back.  Calls made from different threads interleave  *)
(* between sub-checks.                                                     *)
(***************************************************************************)
MaxReputationCalls == 2     \* most calls of check_reputation in a run

ReputationCalls == 1..MaxReputationCalls

ReputationDomains == {"d1", "d2"}

\* an attribute no sub-check has assigned yet
NoDetails == [domain |-> "", call |-> 0]

InitFactors ==
    /\ fa_pc = [c \in ReputationCalls |-> 0]
    /\ fa_domain = [c \in ReputationCalls |-> ""]
    /\ fa_age_score = [c \in ReputationCalls |-> "unset"]
    /\ fa_details = [i \in 1..Len(SubChecks) |-> NoDetails]
    /\ fa_result = [c \in ReputationCalls |-> NoValue]
    /\ OthersIdle("factors")

\* checker.check_reputation(domain) is entered
check_reputation_enter(c) ==
    /\ fa_pc[c] = 0
    /\ \E domain \in ReputationDomains : fa_domain' = [fa_domain EXCEPT ![c] = domain]
    /\ fa_pc' = [fa_pc EXCEPT ![c] = 1]
    /\ UNCHANGED <<fa_age_score, fa_details, fa_result>>
    /\ OthersUnchanged("factors")

\* lines 75-87: the next sub-check of call c runs.  It assigns its details
\* attribute on the shared instance; _check_domain_age without a creation date
\* returns None and assigns nothing (lines 137, 155-158).
check_reputation_records(c) ==
    /\ fa_pc[c] \in 1..Len(SubChecks)
    /\ \/ /\ fa_details' = [fa_details EXCEPT ![fa_pc[c]] =
                                [domain |-> fa_domain[c], call |-> c]]
          /\ fa_age_score' = IF fa_pc[c] = 1
                             THEN [fa_age_score EXCEPT ![c] = "number"]
                             ELSE fa_age_score
       \/ /\ fa_pc[c] = 1
          /\ fa_age_score' = [fa_age_score EXCEPT ![c] = "None"]
          /\ UNCHANGED fa_details
    /\ fa_pc' = [fa_pc EXCEPT ![c] = @ + 1]
    /\ UNCHANGED <<fa_domain, fa_result>>
    /\ OthersUnchanged("factors")

\* lines 90-131: the weighted sum and the result.  The sum raises TypeError on
\* an age score of None and the except clause answers without details;
\* otherwise factors is read from the attributes of the instance.
check_reputation_returns(c) ==
    /\ fa_pc[c] = Len(SubChecks) + 1
    /\ fa_result' = [fa_result EXCEPT ![c] =
          IF fa_age_score[c] = "None"
          THEN [domain |-> fa_domain[c], error |-> "TypeError", factors |-> <<>>]
          ELSE [domain |-> fa_domain[c], error |-> "", factors |-> fa_details]]
    /\ fa_pc' = [fa_pc EXCEPT ![c] = @ + 1]
    /\ UNCHANGED <<fa_domain, fa_age_score, fa_details>>
    /\ OthersUnchanged("factors")

NextFactors ==
    \E c \in ReputationCalls :
        \/ check_reputation_enter(c)
        \/ check_reputation_records(c)
        \/ check_reputation_returns(c)

SpecFactors == InitFactors /\ [][NextFactors]_vars

(***************************************************************************)
(* Claims about the factors of a reputation result                         *)
(***************************************************************************)
\* C39: the details.factors in the result for domain d were all recorded for
\* d during that same call, also when calls for different domains interleave
\* and when a sub-check of the current call returns without recording its
\* details.
C39_FactorsBelongToTheCall ==
    \A c \in ReputationCalls :
        fa_result[c] # NoValue =>
            \A i \in 1..Len(fa_result[c].factors) :
                /\ fa_result[c].factors[i].domain = fa_result[c].domain
                /\ fa_result[c].factors[i].call = c

(***************************************************************************)
(* utils.email_validator.EmailValidator.validate_email                     *)
(* (email_validator.py:19-87) over the reputation check.  The name         *)
(* check_domain_reputation it imports is taken to be check_reputation of   *)
(* the module-level checker of domain_reputation_checker.py.               *)
(***************************************************************************)
\* the values a sub-check hands back as numbers
SubScores(name) == {out \in SubOutcomes(name) : out.kind = "returns"}

\* every dict check_reputation can return (domain_reputation_checker.py:
\* 90-131): the failure result, and the weighted sum of five sub-scores with
\* its risk level
CheckReputationResults ==
    {reputation_except("TypeError")}
    \cup {LET total_score == 25 * age.value + 30 * blacklist.value + 15 * ssl.value
                             + 15 * web.value + 15 * mail.value
          IN [score |-> total_score, risk_level |-> risk_level(total_score), error |-> ""] :
             age \in SubScores("domain_age"), blacklist \in SubScores("blacklist_status"),
             ssl \in SubScores("ssl_status"), web \in SubScores("web_presence"),
             mail \in SubScores("mail_config")}

\* email_validator.py:70: the test that adds the reason 'Poor domain reputation'
poor_reputation(reputation) == get(reputation, "score", 0) < Total(50)

\* what _perform_deep_validation leaves in result['checks'] (lines 99-147);
\* without deep validation the two keys are absent and read as False
DeepChecks == [is_role_account : BOOLEAN, is_spam_trap : BOOLEAN]

InitValidator ==
    /\ ev_pc = "syntax"
    /\ ev_is_disposable = FALSE
    /\ ev_reputation = NoValue
    /\ ev_reasons = {}
    /\ ev_outcome = NoValue
    /\ OthersIdle("validator")

\* email_validator.py:39-63: syntax, MX records and the disposable check
validate_email_domain_checks ==
    /\ ev_pc = "syntax"
    /\ \E syntax_valid \in BOOLEAN, has_mx_records \in BOOLEAN, is_disposable \in BOOLEAN :
          IF ~syntax_valid
          THEN /\ ev_reasons' = {"Invalid email syntax"}
               /\ ev_outcome' = Returns([is_valid |-> FALSE])
               /\ ev_pc' = "done"
               /\ UNCHANGED ev_is_disposable
          ELSE IF ~has_mx_records
          THEN /\ ev_reasons' = {"No MX records found"}
               /\ ev_outcome' = Returns([is_valid |-> FALSE])
               /\ ev_pc' = "done"
               /\ UNCHANGED ev_is_disposable
          ELSE /\ ev_is_disposable' = is_disposable
               /\ ev_reasons' = IF is_disposable
                                THEN {"Disposable email service detected"} ELSE {}
               /\ ev_pc' = "reputation"
               /\ UNCHANGED ev_outcome
    /\ UNCHANGED ev_reputation
    /\ OthersUnchanged("validator")

\* email_validator.py:65-71: the reputation check and its reason
validate_email_reputation_check ==
    /\ ev_pc = "reputation"
    /\ \E reputation \in CheckReputationResults :
          /\ ev_reputation' = reputation
          /\ ev_reasons' = IF poor_reputation(reputation)
                           THEN ev_reasons \cup {"Poor domain reputation"}
                           ELSE ev_reasons
    /\ ev_pc' = "final"
    /\ UNCHANGED <<ev_is_disposable, ev_outcome>>
    /\ OthersUnchanged("validator")

\* email_validator.py:73-87: deep validation if asked for, then the verdict;
\* an exception of the deep validation leaves as ValidationFailedError
validate_email_final ==
    /\ ev_pc = "final"
    /\ \/ \E deep_validation \in BOOLEAN, checks \in DeepChecks :
             LET is_role_account == deep_validation /\ checks.is_role_account
                 is_spam_trap == deep_validation /\ checks.is_spam_trap
             IN ev_outcome' = Returns([is_valid |->
                    /\ ~ev_is_disposable
                    /\ ~poor_reputation(ev_reputation)
                    /\ ~is_role_account
                    /\ ~is_spam_trap])
       \/ ev_outcome' = Raises("ValidationFailedError")
    /\ ev_pc' = "done"
    /\ UNCHANGED <<ev_is_disposable, ev_reputation, ev_reasons>>
    /\ OthersUnchanged("validator")

NextValidator ==
    \/ validate_email_domain_checks
    \/ validate_email_reputation_check
    \/ validate_email_final

SpecValidator == InitValidator /\ [][NextValidator]_vars

(***************************************************************************)
(* Claims about the reputation polarity                                    *)
(***************************************************************************)
\* validate_email returned a result after asking for the reputation
ReputationJudged ==
    /\ ev_pc = "done"
    /\ ev_outcome.kind = "returns"
    /\ ev_reputation # NoValue

\* C40: reputation polarity is uniform across modules: a domain whose
\* reputation check failed (score=100, risk high, 'assume worst') is never
\* accepted by validate_email as having a good reputation, and a domain with
\* the best reputation score the checker can give is not rejected as 'Poor
\* domain reputation'.
C40_ReputationPolarityIsUniform ==
    ReputationJudged =>
        /\ ev_reputation.error # "" =>
              /\ "Poor domain reputation" \in ev_reasons
              /\ ~ev_outcome.value.is_valid
        /\ (ev_reputation.error = "" /\ ev_reputation.score = Total(0)) =>
              "Poor domain reputation" \notin ev_reasons

====
